---------------------------- MODULE Spec2Model ----------------------------
(***************************************************************************)
(* Frame-stepped simulation core of the survival roguelike: the per-frame *)
(* handler updateGame of components/GameCanvas.tsx, the helpers of the     *)
(* game-logic service (spawnEnemy, updateEnemyBehavior, createProjectile), *)
(* and the UI handlers of App.tsx that mutate the shared player record.    *)
(*                                                                         *)
(* Numbers.  The code computes in IEEE doubles.  The model computes in     *)
(* fixed point: lengths and coordinates in tenths of a world unit,         *)
(* resources (hp, damage, exp, bloodEssence, cooldown timers, speeds and   *)
(* stat multipliers) in thousandths, angles in milliradians, unit vectors  *)
(* in thousandths.  Products are rounded to the nearest unit.              *)
(*                                                                         *)
(* Randomness.  Every Math.random() draw of a handler is an input of the   *)
(* action that models the handler (the record "inp").                      *)
(*                                                                         *)
(* Left out: canvas drawing, audio, damage texts, particles, visual        *)
(* effects, screen shake, projectile trails and flash timers.  None of     *)
(* them is read by the simulation.                                         *)
(***************************************************************************)
EXTENDS Integers, Sequences, FiniteSets, TLC

(***************************************************************************)
(* Fixed-point scales                                                      *)
(***************************************************************************)
PosScale == 10
ResScale == 1000
DirScale == 1000

\* a * b / c rounded to the nearest integer, symmetric around 0
Abs(a) == IF a < 0 THEN -a ELSE a
Sgn(a) == IF a < 0 THEN -1 ELSE IF a > 0 THEN 1 ELSE 0
Rnd(a, c) == Sgn(a) * ((2 * Abs(a) + c) \div (2 * c))
Max2(a, b) == IF a > b THEN a ELSE b
Min2(a, b) == IF a < b THEN a ELSE b

\* Math.floor of a non-negative fixed-point resource value, kept in fixed point
FloorRes(a) == (a \div ResScale) * ResScale

RECURSIVE SqrtIter(_, _)
SqrtIter(n, x) ==
    LET y == (x + n \div x) \div 2
    IN IF y >= x THEN x ELSE SqrtIter(n, y)
\* Math.sqrt on non-negative integers (floor)
ISqrt(n) == IF n <= 0 THEN 0 ELSE SqrtIter(n, n)

(***************************************************************************)
(* constants.ts                                                            *)
(***************************************************************************)
WORLD_WIDTH == 5000
WORLD_HEIGHT == 5000
PLAYER_BASE_SPEED == 5
PLAYER_PICKUP_RANGE == 160
PLAYER_DASH_COOLDOWN == 60
ENEMY_SPAWN_DISTANCE == 1200
ENEMY_SPAWN_RATE == 20
MAX_ENEMIES == 300
FRENZY_THRESHOLD == 100
\* FRENZY_DRAIN_RATE = 0.5, in thousandths
FRENZY_DRAIN_RATE == 500

WeaponTypes ==
    {"SWORD_AURA", "PALM_STRIKE", "GOLDEN_BELL", "SPIRIT_DAGGER",
     "KUNAI", "GUQIN", "BLADE", "STAFF"}

\* WEAPON_DEFAULTS: cooldown in frames, damage in hp, speed in units per frame
WEAPON_DEFAULTS ==
    [w \in WeaponTypes |->
        CASE w = "SWORD_AURA"    -> [cooldown |-> 60, damage |-> 15, area |-> 1,   speed |-> 0,  duration |-> 120, tickRate |-> 0]
          [] w = "PALM_STRIKE"   -> [cooldown |-> 45, damage |-> 30, area |-> 1,   speed |-> 8,  duration |-> 0,   tickRate |-> 0]
          [] w = "GOLDEN_BELL"   -> [cooldown |-> 0,  damage |-> 5,  area |-> 100, speed |-> 0,  duration |-> 0,   tickRate |-> 15]
          [] w = "SPIRIT_DAGGER" -> [cooldown |-> 30, damage |-> 20, area |-> 1,   speed |-> 12, duration |-> 0,   tickRate |-> 0]
          [] w = "KUNAI"         -> [cooldown |-> 40, damage |-> 12, area |-> 1,   speed |-> 15, duration |-> 0,   tickRate |-> 0]
          [] w = "GUQIN"         -> [cooldown |-> 90, damage |-> 40, area |-> 1,   speed |-> 0,  duration |-> 300, tickRate |-> 0]
          [] w = "BLADE"         -> [cooldown |-> 50, damage |-> 50, area |-> 1,   speed |-> 6,  duration |-> 0,   tickRate |-> 0]
          [] w = "STAFF"         -> [cooldown |-> 80, damage |-> 25, area |-> 1,   speed |-> 0,  duration |-> 60,  tickRate |-> 0]]

\* Math.PI in milliradians
PI == 3142
TwoPI == 2 * PI

(***************************************************************************)
(* Vector math (gameLogic)                                                 *)
(***************************************************************************)
Vec(x, y) == [x |-> x, y |-> y]
ZeroVec == Vec(0, 0)

\* Largest coordinate difference whose square still fits TLC's integers
SqLimit == 30000

\* Math.sqrt(x*x + y*y) of a vector given in any unit, in the same unit
VecLen(v) ==
    IF Abs(v.x) <= SqLimit /\ Abs(v.y) <= SqLimit
    THEN ISqrt(v.x * v.x + v.y * v.y)
    ELSE 8 * ISqrt((v.x \div 8) * (v.x \div 8) + (v.y \div 8) * (v.y \div 8))

\* getDistance(v1, v2), positions in tenths
getDistance(v1, v2) == VecLen(Vec(v1.x - v2.x, v1.y - v2.y))

\* getDistance(v1, v2) < r, decided on the squares (exact)
DistLess(v1, v2, r) ==
    LET dx == Abs(v1.x - v2.x)
        dy == Abs(v1.y - v2.y)
    IN /\ r > 0
       /\ dx < r
       /\ dy < r
       /\ r <= SqLimit
       /\ dx * dx + dy * dy < r * r

\* getDistance(v1, v2) > r, decided on the squares (exact)
DistMore(v1, v2, r) ==
    LET dx == Abs(v1.x - v2.x)
        dy == Abs(v1.y - v2.y)
    IN \/ dx > r
       \/ dy > r
       \/ dx * dx + dy * dy > r * r

\* normalizeVector(v): a unit vector in thousandths, the zero vector for length 0
normalizeVector(v) ==
    IF v.x = 0 /\ v.y = 0 THEN ZeroVec
    ELSE IF v.y = 0 THEN Vec(Sgn(v.x) * DirScale, 0)
    ELSE IF v.x = 0 THEN Vec(0, Sgn(v.y) * DirScale)
    ELSE LET len == VecLen(v)
         IN Vec(Rnd(v.x * DirScale, len), Rnd(v.y * DirScale, len))

\* checkCollision(e1, e2): dist < e1.radius + e2.radius
checkCollision(e1, e2) == DistLess(e1.pos, e2.pos, e1.radius + e2.radius)


(***************************************************************************)
(* Math.cos / Math.sin / Math.atan2 on milliradians, results in thousandths *)
(***************************************************************************)
\* cos on [0, PI/2] by its Taylor polynomial
CosQ(a) ==
    LET x2 == (a * a) \div DirScale
        x4 == (x2 * x2) \div DirScale
        x6 == (x4 * x2) \div DirScale
    IN DirScale - x2 \div 2 + x4 \div 24 - x6 \div 720

Cos(a) ==
    LET r == a % TwoPI
        h == PI \div 2
    IN IF a % h = 0
       THEN \* the multiples of PI/2 are exact
            CASE r \div h = 0 -> DirScale
              [] r \div h = 2 -> -DirScale
              [] OTHER -> 0
       ELSE IF r <= h THEN CosQ(r)
       ELSE IF r <= PI THEN -CosQ(PI - r)
       ELSE IF r <= PI + h THEN -CosQ(r - PI)
       ELSE CosQ(TwoPI - r)

Sin(a) == Cos(a + 3 * (PI \div 2))

\* atan(q / p) for 0 <= q <= p, p > 0, by z * (PI/4 + 0.273 * (1 - z))
AtanQ(q, p) ==
    LET z == (q * DirScale) \div p
    IN (z * (785 + (273 * (DirScale - z)) \div DirScale)) \div DirScale

\* Math.atan2(y, x), in (-PI, PI]
Atan2(y, x) ==
    LET ax == Abs(x)
        ay == Abs(y)
        a  == IF ax = 0 /\ ay = 0 THEN 0
              ELSE IF ay <= ax THEN AtanQ(ay, ax)
              ELSE PI \div 2 - AtanQ(ax, ay)
        b  == IF x >= 0 THEN a ELSE PI - a
    IN IF y >= 0 THEN b ELSE -b

(***************************************************************************)
(* Displacements: a unit vector (thousandths) times a speed (thousandths   *)
(* of a unit per frame) is a displacement in tenths                        *)
(***************************************************************************)
Step(dir, speed) ==
    Vec(Rnd(dir.x * speed, (DirScale * ResScale) \div PosScale),
        Rnd(dir.y * speed, (DirScale * ResScale) \div PosScale))

VAdd(p, d) == Vec(p.x + d.x, p.y + d.y)
VSub(p, d) == Vec(p.x - d.x, p.y - d.y)

\* a velocity (thousandths of a unit per frame) as a displacement in tenths
VelStep(v) == Vec(Rnd(v.x, ResScale \div PosScale), Rnd(v.y, ResScale \div PosScale))

\* Math.max(lo, Math.min(hi, v))
Clamp(lo, hi, v) == Max2(lo, Min2(hi, v))

(***************************************************************************)
(* spawnEnemy (gameLogic)                                                  *)
(***************************************************************************)
EnemyTypes == {"PEASANT", "CULTIST", "CHARGER", "ARCHER", "BOSS"}
NoType == "NONE"

\* the archetype chosen by the draw rand (in thousandths) when none is forced
RandomType(rand) ==
    IF rand > 950 THEN "CHARGER"
    ELSE IF rand > 900 THEN "ARCHER"
    ELSE IF rand > 700 THEN "CULTIST"
    ELSE "PEASANT"

\* base table: hp and damage in hp, speed in thousandths, radius in tenths
BaseStats(type) ==
    CASE type = "CULTIST" -> [hp |-> 80,   speed |-> 2500, radius |-> 250, damage |-> 10]
      [] type = "CHARGER" -> [hp |-> 160,  speed |-> 1500, radius |-> 300, damage |-> 15]
      [] type = "ARCHER"  -> [hp |-> 45,   speed |-> 3000, radius |-> 200, damage |-> 10]
      [] type = "BOSS"    -> [hp |-> 4000, speed |-> 3500, radius |-> 700, damage |-> 30]
      [] OTHER            -> [hp |-> 30,   speed |-> 2000, radius |-> 220, damage |-> 5]

\* EliteStats with the hp multiplier 4
EliteStatsFour(b) ==
    [hp     |-> Rnd(b.hp * ResScale * 4000, ResScale),
     damage |-> Rnd(b.damage * ResScale * 1500, ResScale),
     radius |-> Rnd(b.radius * 1300, ResScale),
     speed  |-> Rnd(b.speed * 1100, ResScale)]

\* Elite multipliers in thousandths: hp 3.5, damage 1.5, radius 1.3, speed 1.1
EliteStats(b) ==
    [hp     |-> Rnd(b.hp * ResScale * 3500, ResScale),
     damage |-> Rnd(b.damage * ResScale * 1500, ResScale),
     radius |-> Rnd(b.radius * 1300, ResScale),
     speed  |-> Rnd(b.speed * 1100, ResScale)]

PlainStats(b) ==
    [hp     |-> b.hp * ResScale,
     damage |-> b.damage * ResScale,
     radius |-> b.radius,
     speed  |-> b.speed]

\* d: the draws [angle (mrad), jitter (0..200 units), rand (thousandths)];
\* specificType = NoType when the caller passes undefined
spawnEnemy(playerPos, specificType, isElite, d, id) ==
    LET distance == (ENEMY_SPAWN_DISTANCE + d.jitter) * PosScale
        x0   == playerPos.x + Rnd(Cos(d.angle) * distance, DirScale)
        y0   == playerPos.y + Rnd(Sin(d.angle) * distance, DirScale)
        x    == Clamp(50 * PosScale, (WORLD_WIDTH - 50) * PosScale, x0)
        y    == Clamp(50 * PosScale, (WORLD_HEIGHT - 50) * PosScale, y0)
        type == IF specificType # NoType THEN specificType ELSE RandomType(d.rand)
        b    == BaseStats(type)
        s    == IF isElite /\ type # "BOSS" THEN EliteStats(b) ELSE PlainStats(b)
    IN [id |-> id, pos |-> Vec(x, y), type |-> type,
        hp |-> s.hp, maxHp |-> s.hp, speed |-> s.speed, radius |-> s.radius,
        damage |-> s.damage, rotation |-> 0,
        state |-> "CHASING", stateTimer |-> 0, isElite |-> isElite,
        hasTarget |-> FALSE, targetPos |-> ZeroVec, since |-> -1]

(***************************************************************************)
(* Projectiles (types.ts).  pierce0 and hitLog are history fields that the *)
(* code does not have: the pierce the projectile was created with and the  *)
(* ids of the enemies it has damaged, in order.                            *)
(***************************************************************************)
NoId == 0

Proj(id, pos, radius, damage, velocity, duration, pierce, owner, visualType) ==
    [id |-> id, pos |-> pos, radius |-> radius, damage |-> damage,
     velocity |-> velocity, duration |-> duration, pierce |-> pierce,
     hitIds |-> {}, isOrbiting |-> FALSE, orbitAngle |-> 0, orbitDistance |-> 0,
     owner |-> owner, visualType |-> visualType, targetId |-> NoId,
     pierce0 |-> pierce, hitLog |-> <<>>]

(***************************************************************************)
(* updateEnemyBehavior (gameLogic): the enemy after its AI update and the  *)
(* projectiles it fired.  d: the draws [trig: Math.random() < 0.02,        *)
(* timer: 100 + Math.random() * 60 in whole frames].  since is a history   *)
(* field that the code does not have: the AI updates of a charger since    *)
(* the update in which it last entered PREPARING (-1: it never did),       *)
(* counted until it is back in CHASING.                                    *)
(***************************************************************************)
\* enemy.targetPos?.x || player.pos.x
TargetCoord(hasTarget, t, p) == IF hasTarget /\ t # 0 THEN t ELSE p

BossBehavior(enemy, player, dir, id) ==
    LET t0   == IF enemy.stateTimer = 0 THEN 180 ELSE enemy.stateTimer
        t1   == t0 - 1
        fire == t1 <= 0
        wave == Proj(id, enemy.pos, 120 * PosScale, Rnd(enemy.damage * 1500, ResScale),
                     ZeroVec, 20, 999, "ENEMY", "SHOCKWAVE")
    IN [enemy |-> [enemy EXCEPT !.stateTimer = IF fire THEN 240 ELSE t1,
                                !.pos = VAdd(enemy.pos, Step(dir, enemy.speed))],
        projs |-> IF fire THEN <<wave>> ELSE <<>>]

\* ChargerNext that lets a wind-up end in the rest phase, skipping the charge
ChargerNextSkip(state) ==
    CASE state = "PREPARING" -> "COOLDOWN"
      [] state = "CHARGING"  -> "COOLDOWN"
      [] OTHER               -> "CHASING"

\* the state a charger enters when the timer of its state runs out
ChargerNext(state) ==
    CASE state = "PREPARING" -> "CHARGING"
      [] state = "CHARGING"  -> "COOLDOWN"
      [] OTHER               -> "CHASING"

\* StateFrames with a charge of 29 frames
StateFramesShort(state) ==
    CASE state = "PREPARING" -> 40
      [] state = "CHARGING"  -> 29
      [] state = "COOLDOWN"  -> 60

\* the stateTimer a charger gets when it enters the state
StateFrames(state) ==
    CASE state = "PREPARING" -> 40
      [] state = "CHARGING"  -> 30
      [] state = "COOLDOWN"  -> 60

ChargerBehavior(enemy, player, dir, d) ==
    CASE enemy.state = "CHASING" ->
           LET moved == [enemy EXCEPT !.pos = VAdd(enemy.pos, Step(dir, enemy.speed))]
               near  == /\ DistLess(player.pos, enemy.pos, 300 * PosScale)
                        /\ DistMore(player.pos, enemy.pos, 100 * PosScale)
           IN IF near /\ d.trig
              THEN [moved EXCEPT !.state = "PREPARING",
                                 !.stateTimer = StateFrames("PREPARING"),
                                 !.hasTarget = TRUE, !.targetPos = player.pos,
                                 !.since = 0]
              ELSE moved
      [] enemy.state = "PREPARING" ->
           IF enemy.stateTimer - 1 <= 0
           THEN [enemy EXCEPT !.state = ChargerNext("PREPARING"),
                              !.stateTimer = StateFrames("CHARGING"),
                              !.since = @ + 1]
           ELSE [enemy EXCEPT !.stateTimer = enemy.stateTimer - 1, !.since = @ + 1]
      [] enemy.state = "CHARGING" ->
           LET tx == TargetCoord(enemy.hasTarget, enemy.targetPos.x, player.pos.x)
               ty == TargetCoord(enemy.hasTarget, enemy.targetPos.y, player.pos.y)
               chargeDir == normalizeVector(Vec(tx - enemy.pos.x, ty - enemy.pos.y))
               moved == [enemy EXCEPT !.pos = VAdd(enemy.pos, Step(chargeDir, 12 * ResScale)),
                                      !.since = @ + 1]
           IN IF enemy.stateTimer - 1 <= 0
              THEN [moved EXCEPT !.state = ChargerNext("CHARGING"),
                                 !.stateTimer = StateFrames("COOLDOWN")]
              ELSE [moved EXCEPT !.stateTimer = enemy.stateTimer - 1]
      [] enemy.state = "COOLDOWN" ->
           IF enemy.stateTimer - 1 <= 0
           THEN [enemy EXCEPT !.state = ChargerNext("COOLDOWN"),
                              !.stateTimer = enemy.stateTimer - 1,
                              !.since = @ + 1]
           ELSE [enemy EXCEPT !.stateTimer = enemy.stateTimer - 1, !.since = @ + 1]
      [] OTHER -> enemy

ArcherBehavior(enemy, player, dir, d, id) ==
    LET pos1 == IF DistLess(player.pos, enemy.pos, 200 * PosScale)
                THEN VSub(enemy.pos, Step(dir, enemy.speed))
                ELSE IF DistMore(player.pos, enemy.pos, 400 * PosScale)
                THEN VAdd(enemy.pos, Step(dir, enemy.speed))
                ELSE VAdd(enemy.pos, Step(Vec(-dir.y, dir.x), enemy.speed \div 2))
        t0   == IF enemy.stateTimer = 0 THEN d.timer ELSE enemy.stateTimer
        t1   == t0 - 1
        fire == t1 <= 0
        arrow == Proj(id, pos1, 8 * PosScale, enemy.damage,
                      Vec(dir.x * 6, dir.y * 6), 120, 1, "ENEMY", "ARROW")
    IN [enemy |-> [enemy EXCEPT !.pos = pos1, !.stateTimer = IF fire THEN 180 ELSE t1],
        projs |-> IF fire THEN <<arrow>> ELSE <<>>]

updateEnemyBehavior(enemy, player, d, id) ==
    LET dx  == player.pos.x - enemy.pos.x
        dy  == player.pos.y - enemy.pos.y
        dir == normalizeVector(Vec(dx, dy))
        e0  == [enemy EXCEPT !.rotation = IF dx < 0 THEN PI ELSE 0]
    IN CASE enemy.type = "BOSS" -> BossBehavior(e0, player, dir, id)
         [] enemy.type = "CHARGER" ->
              [enemy |-> ChargerBehavior(e0, player, dir, d), projs |-> <<>>]
         [] enemy.type = "ARCHER" -> ArcherBehavior(e0, player, dir, d, id)
         [] OTHER ->
              [enemy |-> [e0 EXCEPT !.pos = VAdd(e0.pos, Step(dir, e0.speed))],
               projs |-> <<>>]

(***************************************************************************)
(* createProjectile (gameLogic).  d: the draws [palmAngle (mrad),          *)
(* guqin: two offsets (Math.random() - 0.5) * range, in tenths]; the new   *)
(* projectiles get the ids id, id + 1, ...                                 *)
(***************************************************************************)
SqDist(a, b) == (a.x - b.x) * (a.x - b.x) + (a.y - b.y) * (a.y - b.y)

\* The loops over the enemy list are written as scans of an index range
\* lo..hi that is cut in halves: the elements are visited in the order of the
\* code, the second half starting from the result r1 of the first, and the
\* evaluation stays shallow for a list of MAX_ENEMIES entries.
Mid(lo, hi) == (lo + hi) \div 2

\* a range short enough to be walked element by element, as the code's loop does
Short(lo, hi) == hi < lo + 8

\* for (const e of enemies) { d = getDistance(..); if (d < minD) { minD = d; nearest = e } }
\* near: the index of the nearest enemy so far (0 for none) and its squared distance
RECURSIVE NearestFrom(_, _, _, _, _)
NearestFrom(enemies, pos, lo, hi, near) ==
    IF lo > hi THEN near
    ELSE IF Short(lo, hi)
    THEN LET e  == enemies[lo]
             in == /\ Abs(e.pos.x - pos.x) <= SqLimit
                   /\ Abs(e.pos.y - pos.y) <= SqLimit
                   /\ SqDist(e.pos, pos) < near.sq
         IN IF in
            THEN NearestFrom(enemies, pos, lo + 1, hi, [best |-> lo, sq |-> SqDist(e.pos, pos)])
            ELSE NearestFrom(enemies, pos, lo + 1, hi, near)
    ELSE CHOOSE r \in {NearestFrom(enemies, pos, Mid(lo, hi) + 1, hi, r1) :
                          r1 \in {NearestFrom(enemies, pos, lo, Mid(lo, hi), near)}} : TRUE

\* the index of the nearest enemy within range (tenths), 0 when there is none
Nearest(enemies, pos, range) ==
    NearestFrom(enemies, pos, 1, Len(enemies), [best |-> 0, sq |-> range * range]).best

\* player.weapons.find(w => w.type === weaponType): its index, 0 when not equipped
FindWeapon(weapons, weaponType) ==
    IF \E i \in 1..Len(weapons) : weapons[i].type = weaponType
    THEN CHOOSE i \in 1..Len(weapons) :
            /\ weapons[i].type = weaponType
            /\ \A j \in 1..(i - 1) : weapons[j].type # weaponType
    ELSE 0

\* weapon.damage * might, times 1.5 in frenzy
WeaponDamage(player, weapon) ==
    LET mightMultiplier == IF player.isFrenzy
                           THEN Rnd(player.stats.might * 1500, ResScale)
                           ELSE player.stats.might
    IN Rnd(weapon.damage * mightMultiplier, ResScale)

Orbiting(p, angle, dist) ==
    [p EXCEPT !.isOrbiting = TRUE, !.orbitAngle = angle, !.orbitDistance = dist]

\* velocity of the given speed (units per frame) along angle a
AngleVel(a, speed) == Vec(Cos(a) * speed, Sin(a) * speed)

SwordProjectiles(player, weapon, damage, id) ==
    LET count == weapon.level
    IN [i \in 1..count |->
          Orbiting(Proj(id + i - 1, player.pos, 12 * PosScale, damage, ZeroVec,
                        180, 999, "PLAYER", "SWORD"),
                   (TwoPI * (i - 1)) \div count,
                   Rnd(100 * PosScale * weapon.area, ResScale))]

DaggerProjectiles(player, damage, enemies, id) ==
    LET n     == Nearest(enemies, player.pos, 600 * PosScale)
        start == IF n # 0
                 THEN normalizeVector(Vec(enemies[n].pos.x - player.pos.x,
                                          enemies[n].pos.y - player.pos.y))
                 ELSE Vec(Cos(player.rotation), Sin(player.rotation))
        speed == WEAPON_DEFAULTS["SPIRIT_DAGGER"].speed
    IN <<[Proj(id, player.pos, 8 * PosScale, damage,
               Vec(start.x * speed, start.y * speed), 90, 1, "PLAYER", "DAGGER")
          EXCEPT !.targetId = IF n # 0 THEN enemies[n].id ELSE NoId]>>

KunaiProjectiles(player, damage, enemies, id) ==
    LET n == Nearest(enemies, player.pos, 400 * PosScale)
        targetAngle == IF n # 0
                       THEN Atan2(enemies[n].pos.y - player.pos.y,
                                  enemies[n].pos.x - player.pos.x)
                       ELSE player.rotation
        spread == 300
        speed  == WEAPON_DEFAULTS["KUNAI"].speed
    IN [i \in 1..3 |->
          Proj(id + i - 1, player.pos, 6 * PosScale, Rnd(damage * 800, ResScale),
               AngleVel(targetAngle - spread + spread * (i - 1), speed),
               40, 1, "PLAYER", "KUNAI")]

BladeProjectiles(player, weapon, damage, id) ==
    LET angle == IF player.rotation = PI THEN PI ELSE 0
        speed == WEAPON_DEFAULTS["BLADE"].speed
    IN <<Proj(id, Vec(player.pos.x + Rnd(Cos(angle) * 30 * PosScale, DirScale), player.pos.y),
              Rnd(40 * PosScale * weapon.area, ResScale), Rnd(damage * 1500, ResScale),
              Vec(Cos(angle) * speed, 0), 25, 999, "PLAYER", "SLASH")>>

GuqinProjectiles(player, damage, d, id) ==
    [i \in 1..2 |->
        Proj(id + i - 1, VAdd(player.pos, d.guqin[i]), 30 * PosScale, damage, ZeroVec,
             WEAPON_DEFAULTS["GUQIN"].duration, 3, "PLAYER", "NOTE")]

StaffProjectiles(player, weapon, damage, id) ==
    LET dist == Rnd(60 * PosScale * weapon.area, ResScale)
        p(k) == Proj(id + k, player.pos, 15 * PosScale, damage, ZeroVec,
                     WEAPON_DEFAULTS["STAFF"].duration, 999, "PLAYER", "STAFF")
    IN <<Orbiting(p(0), 0, dist), Orbiting(p(1), PI, dist)>>

createProjectile(player, weaponType, enemies, d, id) ==
    LET k == FindWeapon(player.weapons, weaponType)
    IN IF k = 0 THEN <<>>
       ELSE LET weapon == player.weapons[k]
                damage == WeaponDamage(player, weapon)
            IN CASE weaponType = "PALM_STRIKE" ->
                      <<Proj(id, player.pos, Rnd(35 * PosScale * weapon.area, ResScale),
                             damage, AngleVel(d.palmAngle, 8), 60, 999, "PLAYER", "PALM")>>
                 [] weaponType = "SWORD_AURA" -> SwordProjectiles(player, weapon, damage, id)
                 [] weaponType = "SPIRIT_DAGGER" -> DaggerProjectiles(player, damage, enemies, id)
                 [] weaponType = "KUNAI" -> KunaiProjectiles(player, damage, enemies, id)
                 [] weaponType = "BLADE" -> BladeProjectiles(player, weapon, damage, id)
                 [] weaponType = "GUQIN" -> GuqinProjectiles(player, damage, d, id)
                 [] weaponType = "STAFF" -> StaffProjectiles(player, weapon, damage, id)
                 [] OTHER -> <<>>

(***************************************************************************)
(* The player record and the upgrade handlers of App.tsx                   *)
(***************************************************************************)
NewWeapon(type) ==
    [type |-> type, level |-> 1, cooldownTimer |-> 0,
     baseCooldown |-> WEAPON_DEFAULTS[type].cooldown * ResScale,
     damage |-> WEAPON_DEFAULTS[type].damage * ResScale,
     area |-> ResScale]

\* the record the MENU effect of GameCanvas stores in playerRef
StartPlayer ==
    [pos |-> Vec((WORLD_WIDTH * PosScale) \div 2, (WORLD_HEIGHT * PosScale) \div 2),
     radius |-> 25 * PosScale, rotation |-> 0,
     hp |-> 100 * ResScale, maxHp |-> 100 * ResScale,
     speed |-> PLAYER_BASE_SPEED * ResScale,
     exp |-> 0, level |-> 1, nextLevelExp |-> 30 * ResScale,
     bloodEssence |-> 0, maxBloodEssence |-> 100 * ResScale,
     isFrenzy |-> FALSE, frenzyTimer |-> 0,
     stats |-> [might |-> ResScale, cooldown |-> ResScale, area |-> ResScale,
                speed |-> ResScale, magnet |-> ResScale, dodgeChance |-> 0,
                frenzyEfficiency |-> ResScale, expMultiplier |-> ResScale],
     weapons |-> <<NewWeapon("SWORD_AURA")>>,
     dashTimer |-> 0, maxDashTimer |-> PLAYER_DASH_COOLDOWN]

\* MASTER_POOL of handleLevelUp: option id -> option; stat values in thousandths
StatOption(stat, value) == [type |-> "STAT", weaponType |-> NoType, statType |-> stat, value |-> value]
WeaponOption(w) == [type |-> "WEAPON", weaponType |-> w, statType |-> NoType, value |-> 0]

MASTER_POOL ==
    [wp_sword   |-> WeaponOption("SWORD_AURA"),
     wp_palm    |-> WeaponOption("PALM_STRIKE"),
     wp_bell    |-> WeaponOption("GOLDEN_BELL"),
     wp_dagger  |-> WeaponOption("SPIRIT_DAGGER"),
     wp_kunai   |-> WeaponOption("KUNAI"),
     wp_blade   |-> WeaponOption("BLADE"),
     wp_guqin   |-> WeaponOption("GUQIN"),
     wp_staff   |-> WeaponOption("STAFF"),
     leg_might  |-> StatOption("might", 100),
     leg_area   |-> StatOption("area", 150),
     leg_dodge  |-> StatOption("dodgeChance", 100),
     leg_frenzy |-> StatOption("frenzyEfficiency", 200),
     rare_speed |-> StatOption("speed", 100),
     rare_cd    |-> StatOption("cooldown", 100),
     rare_exp   |-> StatOption("expMultiplier", 200),
     com_might  |-> StatOption("might", 50),
     com_area   |-> StatOption("area", 50),
     com_magnet |-> StatOption("magnet", 150),
     com_speed  |-> StatOption("speed", 50)]

OptionIds == DOMAIN MASTER_POOL

\* selectUpgrade(option), the part that mutates the player
ApplyUpgrade(p, option) ==
    IF option.type = "WEAPON" /\ option.weaponType # NoType
    THEN LET k == FindWeapon(p.weapons, option.weaponType)
         IN IF k # 0
            THEN [p EXCEPT !.weapons[k].level = @ + 1,
                           !.weapons[k].damage =
                               @ + 5 * ResScale
                                 + (IF option.weaponType = "SWORD_AURA" THEN 5 * ResScale ELSE 0)]
            ELSE [p EXCEPT !.weapons = Append(@, NewWeapon(option.weaponType))]
    ELSE IF option.type = "STAT" /\ option.statType # NoType /\ option.value # 0
    THEN [p EXCEPT !.stats[option.statType] = @ + option.value]
    ELSE p

\* handleChestPickup, the part that mutates the player. heal: Math.random() < 0.3;
\* pick: the second draw, in thousandths, that selects the weapon
ChestWeaponIndex(n, pick) == ((pick * n) \div ResScale) + 1

ApplyChest(p, heal, pick) ==
    IF heal
    THEN [p EXCEPT !.hp = p.maxHp, !.bloodEssence = p.maxBloodEssence]
    ELSE IF Len(p.weapons) > 0
    THEN LET k == ChestWeaponIndex(Len(p.weapons), pick)
         IN [p EXCEPT !.weapons[k].level = @ + 1,
                      !.weapons[k].damage = @ + 10 * ResScale]
    ELSE p

(***************************************************************************)
(* updateGame (GameCanvas), step by step.  Each step maps the simulation   *)
(* state g (the refs of GameCanvas, the pending setGameState, the state of *)
(* App the callbacks write, and the log of the tick) to the state after    *)
(* the step.  inp holds the draws and the movement input of the tick.      *)
(***************************************************************************)
\* The log of one call of updateGame (not program state):
\*   simulated  the call passed the PLAYING and hit-stop guards
\*   hits       one entry per damage a player projectile dealt to an enemy
\*   removed    the projectiles spliced out, as they were when removed
\*   kept       the projectiles processed and not removed
\*   fired      one entry per weapon that called createProjectile
\*   killed     the enemies spliced out by the dead-enemy cleanup
\*   picked     the resource orbs picked up
\*   events     the callbacks invoked, in order
\*   essence    player.bloodEssence when the frenzy step began
\*   hpLow      player.hp was <= 0 right after some damage of this call
\*   exp        player.exp when the level-up step began
\*   heals      the chests opened whose reward was the heal
\*   shots      one entry per enemy projectile that overlapped the player
EmptyLog ==
    [simulated |-> FALSE, hits |-> <<>>, removed |-> <<>>, kept |-> <<>>,
     fired |-> <<>>, killed |-> <<>>, picked |-> <<>>, events |-> <<>>,
     hpLow |-> FALSE, essence |-> 0, exp |-> 0, heals |-> 0,
     shots |-> <<>>]

\* player.hp -= amount, and the log
HurtPlayer(g, amount) ==
    [g EXCEPT !.player.hp = @ - amount,
              !.log.hpLow = @ \/ (g.player.hp - amount <= 0)]

\* Math.random() < player.stats.dodgeChance for the draw attached to id
Dodges(g, inp, id) == (IF id \in inp.dodge THEN 0 ELSE ResScale - 1) < g.player.stats.dodgeChance

\* --- 0. Systems Update
SystemsStep(g) ==
    [g EXCEPT !.frameCount = @ + 1,
              !.hist.ticks = @ + 1,
              !.player.dashTimer = IF @ > 0 THEN @ - 1 ELSE @]

\* --- 1. Player Movement
MoveStep(g, inp) ==
    LET pl == g.player
        s0 == Rnd(pl.speed * pl.stats.speed, ResScale)
        currentSpeed == IF pl.isFrenzy THEN Rnd(s0 * 1300, ResScale) ELSE s0
        moved == VAdd(pl.pos, Step(inp.move, currentSpeed))
    IN IF inp.move.x # 0 \/ inp.move.y # 0
       THEN [g EXCEPT
               !.player.pos = Vec(Clamp(pl.radius, WORLD_WIDTH * PosScale - pl.radius, moved.x),
                                  Clamp(pl.radius, WORLD_HEIGHT * PosScale - pl.radius, moved.y)),
               !.player.rotation = IF inp.move.x < 0 THEN PI
                                   ELSE IF inp.move.x > 0 THEN 0 ELSE @]
       ELSE g

\* --- 2. Spawning Enemies
SpawnRate(score) == Max2(5, ENEMY_SPAWN_RATE - score \div 500)

\* HasBoss that never sees the boss
HasBossNever(en) == FALSE

\* enemies.some(e => e.type === EnemyType.BOSS)
HasBoss(en) == \E i \in 1..Len(en) : en[i].type = "BOSS"

NormalSpawn(g, inp) ==
    IF g.frameCount % SpawnRate(g.score) = 0 /\ Len(g.enemies) < MAX_ENEMIES
    THEN LET isBoss == g.score > 0 /\ g.score % 1500 = 0 /\ ~HasBoss(g.enemies)
         IN [g EXCEPT !.enemies = Append(@, spawnEnemy(g.player.pos,
                                                       IF isBoss THEN "BOSS" ELSE NoType,
                                                       FALSE, inp.spawn, g.nextId)),
                      !.nextId = @ + 1]
    ELSE g

EliteSpawn(g, inp) ==
    IF g.frameCount % 1800 = 0 /\ g.score > 100
    THEN [g EXCEPT !.enemies = Append(@, spawnEnemy(g.player.pos, NoType, TRUE,
                                                    inp.elite, g.nextId)),
                   !.nextId = @ + 1]
    ELSE g

SpawnStep(g, inp) == EliteSpawn(NormalSpawn(g, inp), inp)

\* --- 3. Enemy Logic (AI) and contact damage, for enemy i
ContactDamage(g, inp, enemy) ==
    IF checkCollision(g.player, enemy) /\ g.frameCount % 30 = 0 /\ ~Dodges(g, inp, enemy.id)
    THEN HurtPlayer(g, enemy.damage)
    ELSE g

EnemyTurn(g, inp, i) ==
    LET r  == updateEnemyBehavior(g.enemies[i], g.player,
                                  [trig |-> g.enemies[i].id \in inp.trig, timer |-> inp.timer],
                                  g.nextId)
        g1 == [g EXCEPT !.enemies[i] = r.enemy,
                        !.projectiles = @ \o r.projs,
                        !.nextId = @ + Len(r.projs)]
    IN ContactDamage(g1, inp, r.enemy)

RECURSIVE EnemyLoop(_, _, _, _)
EnemyLoop(g, inp, lo, hi) ==
    IF lo > Min2(hi, Len(g.enemies)) THEN g
    ELSE IF Short(lo, hi) THEN EnemyLoop(EnemyTurn(g, inp, lo), inp, lo + 1, hi)
    ELSE CHOOSE r \in {EnemyLoop(r1, inp, Mid(lo, hi) + 1, hi) :
                          r1 \in {EnemyLoop(g, inp, lo, Mid(lo, hi))}} : TRUE

EnemyStep(g, inp) == EnemyLoop(g, inp, 1, Len(g.enemies))

\* --- 4. Weapon Cooldowns & Firing
\* the Golden Bell tick on one enemy
BellHit(player, radius, dmg, e) ==
    IF DistLess(player.pos, e.pos, radius + e.radius)
    THEN LET push == Step(normalizeVector(Vec(e.pos.x - player.pos.x, e.pos.y - player.pos.y)),
                          5 * ResScale)
         IN [e EXCEPT !.hp = @ - dmg, !.pos = VAdd(@, push)]
    ELSE e

BellTick(g, w) ==
    LET tickRate == WEAPON_DEFAULTS["GOLDEN_BELL"].tickRate
        radius == Rnd(Rnd(WEAPON_DEFAULTS["GOLDEN_BELL"].area * PosScale * w.area, ResScale)
                        * g.player.stats.area, ResScale)
        dmg == WeaponDamage(g.player, w)
    IN IF g.frameCount % tickRate = 0
       THEN [g EXCEPT !.enemies = [j \in 1..Len(g.enemies) |->
                                      BellHit(g.player, radius, dmg, g.enemies[j])]]
       ELSE g

\* CoolingDown that lets a weapon fire one tick early
CoolingDownShort(w) == w.cooldownTimer > ResScale

\* if (w.cooldownTimer > 0)
CoolingDown(w) == w.cooldownTimer > 0

WeaponTurn(g, inp, i) ==
    LET w == g.player.weapons[i]
    IN IF w.type = "GOLDEN_BELL" THEN BellTick(g, w)
       ELSE IF CoolingDown(w)
       THEN [g EXCEPT !.player.weapons[i].cooldownTimer = @ - g.player.stats.cooldown,
                      !.hist.sinceFire[w.type] = IF @ >= 0 THEN @ + 1 ELSE @]
       ELSE LET newProjs == createProjectile(g.player, w.type, g.enemies, inp, g.nextId)
            IN [g EXCEPT !.projectiles = @ \o newProjs,
                         !.nextId = @ + Len(newProjs),
                         !.player.weapons[i].cooldownTimer = w.baseCooldown,
                         !.hist.sinceFire[w.type] = 0,
                         !.log.fired = Append(@, [weapon |-> i, type |-> w.type,
                                                   gap |-> IF g.hist.sinceFire[w.type] >= 0
                                                           THEN g.hist.sinceFire[w.type] + 1
                                                           ELSE -1,
                                                   ids |-> {newProjs[k].id : k \in 1..Len(newProjs)}])]

RECURSIVE WeaponLoop(_, _, _)
WeaponLoop(g, inp, i) ==
    IF i > Len(g.player.weapons) THEN g ELSE WeaponLoop(WeaponTurn(g, inp, i), inp, i + 1)

WeaponStep(g, inp) == WeaponLoop(g, inp, 1)

\* --- 5. Projectile Logic
\* enemies.find(e => e.id === id): its index, 0 when there is none
FindEnemy(enemies, id) ==
    IF \E i \in 1..Len(enemies) : enemies[i].id = id
    THEN CHOOSE i \in 1..Len(enemies) :
            /\ enemies[i].id = id
            /\ \A j \in 1..(i - 1) : enemies[j].id # id
    ELSE 0

\* homing of the spirit dagger: the velocity turned towards the live target
Steer(p, target) ==
    LET steerStrength == 200
        desiredDir == normalizeVector(Vec(target.pos.x - p.pos.x, target.pos.y - p.pos.y))
        currentDir == normalizeVector(p.velocity)
        newDir == Vec(currentDir.x + Rnd((desiredDir.x - currentDir.x) * steerStrength, DirScale),
                      currentDir.y + Rnd((desiredDir.y - currentDir.y) * steerStrength, DirScale))
        finalDir == normalizeVector(newDir)
        speed == VecLen(p.velocity)
    IN Vec(Rnd(finalDir.x * speed, DirScale), Rnd(finalDir.y * speed, DirScale))

\* Homing that turns a bolt whose target is gone towards the first enemy
HomingRetarget(p, en) ==
    IF p.visualType = "DAGGER" /\ p.targetId # NoId
    THEN LET t == FindEnemy(en, p.targetId)
         IN IF t # 0 THEN [p EXCEPT !.velocity = Steer(p, en[t])]
            ELSE IF Len(en) > 0 THEN [p EXCEPT !.velocity = Steer(p, en[1])]
            ELSE p
    ELSE p

Homing(p, enemies) ==
    IF p.visualType = "DAGGER" /\ p.targetId # NoId
    THEN LET t == FindEnemy(enemies, p.targetId)
         IN IF t # 0 THEN [p EXCEPT !.velocity = Steer(p, enemies[t])] ELSE p
    ELSE p

\* orbit around the player, or one step along the velocity; then duration--
Advance(p, player) ==
    LET q == IF p.isOrbiting
             THEN LET a == p.orbitAngle + 100
                      dist == IF p.orbitDistance # 0 THEN p.orbitDistance ELSE 50 * PosScale
                  IN [p EXCEPT !.orbitAngle = a,
                               !.pos = Vec(player.pos.x + Rnd(Cos(a) * dist, DirScale),
                                           player.pos.y + Rnd(Sin(a) * dist, DirScale))]
             ELSE [p EXCEPT !.pos = VAdd(p.pos, VelStep(p.velocity))]
    IN [q EXCEPT !.duration = @ - 1]

\* CanHit without the hit-set test: shows what HitOnce owes to that test
CanHitAgain(p, e) == checkCollision(p, e)

\* may the loop over the enemies damage enemy e with projectile p
CanHit(p, e) == ~(e.id \in p.hitIds) /\ checkCollision(p, e)

\* projectile i against enemy j
HitEnemy(g, inp, i, j) ==
    LET p == g.projectiles[i]
        e == g.enemies[j]
        isCrit == <<p.id, e.id>> \in inp.crit
        finalDamage == IF isCrit THEN p.damage * 2 ELSE p.damage
        kbDir == normalizeVector(Vec(e.pos.x - p.pos.x, e.pos.y - p.pos.y))
    IN IF CanHit(p, e)
       THEN [g EXCEPT !.enemies[j].hp = @ - p.damage,
                      !.enemies[j].pos = VAdd(@, Step(kbDir, 10 * ResScale)),
                      !.projectiles[i].hitIds = @ \cup {e.id},
                      !.projectiles[i].pierce = @ - 1,
                      !.projectiles[i].hitLog = Append(@, e.id),
                      !.hitStop = IF isCrit THEN 3 ELSE @,
                      !.log.hits = Append(@, [pid |-> p.id, eid |-> e.id, applied |-> p.damage,
                                               shown |-> finalDamage, crit |-> isCrit])]
       ELSE g

RECURSIVE HitLoop(_, _, _, _, _)
HitLoop(g, inp, i, lo, hi) ==
    IF lo > Min2(hi, Len(g.enemies)) THEN g
    ELSE IF Short(lo, hi) THEN HitLoop(HitEnemy(g, inp, i, lo), inp, i, lo + 1, hi)
    ELSE CHOOSE r \in {HitLoop(r1, inp, i, Mid(lo, hi) + 1, hi) :
                          r1 \in {HitLoop(g, inp, i, lo, Mid(lo, hi))}} : TRUE

\* the log entry of an enemy projectile that overlapped the player
Shot(p, dodged, g, g1) ==
    [pid |-> p.id, damage |-> p.damage, dodged |-> dodged,
     hpBefore |-> g.player.hp, hpAfter |-> g1.player.hp]

\* HitPlayer with the projectile losing one pierce on a hit
HitPlayerPierce(g, inp, i) ==
    LET p == g.projectiles[i]
        h == HurtPlayer(g, p.damage)
    IN IF checkCollision(p, g.player)
       THEN IF Dodges(g, inp, p.id)
            THEN [g EXCEPT !.projectiles[i].pierce = 0,
                           !.log.shots = Append(@, Shot(p, TRUE, g, g))]
            ELSE [h EXCEPT !.projectiles[i].pierce = @ - 1,
                           !.log.shots = Append(@, Shot(p, FALSE, g, h))]
       ELSE g

\* an enemy projectile against the player
HitPlayer(g, inp, i) ==
    LET p == g.projectiles[i]
        h == HurtPlayer(g, p.damage)
    IN IF checkCollision(p, g.player)
       THEN IF Dodges(g, inp, p.id)
            THEN [g EXCEPT !.projectiles[i].pierce = 0,
                           !.log.shots = Append(@, Shot(p, TRUE, g, g))]
            ELSE [h EXCEPT !.projectiles[i].pierce = 0,
                           !.log.shots = Append(@, Shot(p, FALSE, g, h))]
       ELSE g

OutOfWorld(p) ==
    \/ p.pos.x < -100 * PosScale
    \/ p.pos.x > (WORLD_WIDTH + 100) * PosScale
    \/ p.pos.y < -100 * PosScale
    \/ p.pos.y > (WORLD_HEIGHT + 100) * PosScale

\* Expired with the position test applied to orbiting projectiles as well
ExpiredAnywhere(p) == p.duration <= 0 \/ p.pierce <= 0 \/ OutOfWorld(p)

\* the condition of projectiles.splice(i, 1)
Expired(p) == p.duration <= 0 \/ p.pierce <= 0 \/ (~p.isOrbiting /\ OutOfWorld(p))

\* one iteration of the projectile loop; the spliced indices are collected in dead
ProjectileTurn(g, inp, i) ==
    LET g1 == [g EXCEPT !.projectiles[i] = Advance(Homing(@, g.enemies), g.player)]
        g2 == IF g1.projectiles[i].owner = "PLAYER" THEN HitLoop(g1, inp, i, 1, Len(g1.enemies))
              ELSE IF g1.projectiles[i].owner = "ENEMY" THEN HitPlayer(g1, inp, i)
              ELSE g1
        p  == g2.projectiles[i]
    IN IF Expired(p)
       THEN [g2 EXCEPT !.dead = @ \cup {i}, !.log.removed = Append(@, p)]
       ELSE [g2 EXCEPT !.log.kept = Append(@, p)]

RECURSIVE ProjectileLoop(_, _, _)
ProjectileLoop(g, inp, i) ==
    IF i < 1 THEN g ELSE ProjectileLoop(ProjectileTurn(g, inp, i), inp, i - 1)

\* the sequence without the indices in dead
Without(seq, dead) ==
    LET keep  == {i \in 1..Len(seq) : i \notin dead}
        at(k) == CHOOSE i \in keep : Cardinality({j \in keep : j < i}) = k - 1
    IN IF dead = {} THEN seq ELSE [k \in 1..Cardinality(keep) |-> seq[at(k)]]

ProjectileStep(g, inp) ==
    LET g1 == ProjectileLoop([g EXCEPT !.dead = {}], inp, Len(g.projectiles))
    IN [g1 EXCEPT !.projectiles = Without(g1.projectiles, g1.dead), !.dead = {}]

\* --- 6. Cleanup Dead Enemies (the loop runs from the last index down)
\* DropOf that leaves a resource orb for every enemy
DropOfOrb(e, id) ==
    [id |-> id, pos |-> e.pos, radius |-> 5 * PosScale,
     value |-> IF e.type = "BOSS" THEN 50 ELSE IF e.type = "CULTIST" THEN 5 ELSE 1,
     type |-> "BLOOD"]

DropOf(e, id) ==
    LET chest == e.isElite \/ e.type = "BOSS"
    IN [id |-> id, pos |-> e.pos,
        radius |-> IF chest THEN 15 * PosScale ELSE 5 * PosScale,
        value |-> IF e.type = "BOSS" THEN 50 ELSE IF e.type = "CULTIST" THEN 5 ELSE 1,
        type |-> IF chest THEN "CHEST" ELSE "BLOOD"]

CleanupTurn(g, i) ==
    LET e == g.enemies[i]
    IN IF e.hp <= 0
       THEN [g EXCEPT !.drops = Append(@, DropOf(e, g.nextId)),
                      !.nextId = @ + 1,
                      !.score = @ + (IF e.isElite THEN 100 ELSE 10),
                      !.dead = @ \cup {i},
                      !.log.killed = Append(@, e)]
       ELSE g

RECURSIVE CleanupLoop(_, _, _)
CleanupLoop(g, lo, hi) ==
    IF lo > Min2(hi, Len(g.enemies)) THEN g
    ELSE IF Short(lo, hi) THEN CleanupLoop(CleanupTurn(g, hi), lo, hi - 1)
    ELSE CHOOSE r \in {CleanupLoop(r1, lo, Mid(lo, hi)) :
                          r1 \in {CleanupLoop(g, Mid(lo, hi) + 1, hi)}} : TRUE

CleanupStep(g) ==
    LET g1 == CleanupLoop([g EXCEPT !.dead = {}], 1, Len(g.enemies))
    IN [g1 EXCEPT !.enemies = Without(g1.enemies, g1.dead), !.dead = {}]

\* --- 7. Pickup Logic (the loop runs from the last index down)
\* onChestPickup(): handleChestPickup of App.tsx, called inside the tick
ChestPickup(g, inp, i) ==
    LET heal == g.drops[i].id \in inp.chestHeal
    IN [g EXCEPT !.dead = @ \cup {i},
                 !.player = ApplyChest(@, heal, inp.chestPick),
                 !.pending = "CHEST_REWARD",
                 !.chestReward = IF heal THEN "HEAL"
                                 ELSE IF Len(g.player.weapons) > 0 THEN "WEAPON" ELSE "SCORE",
                 !.log.events = Append(@, "chest"),
                 !.log.heals = IF heal THEN @ + 1 ELSE @]

\* OrbHeal without the test hp < maxHp
OrbHealAlways(pl) == pl.hp + ResScale \div 2

\* if (player.hp < player.maxHp) player.hp += 0.5
OrbHeal(pl) == IF pl.hp < pl.maxHp THEN pl.hp + ResScale \div 2 ELSE pl.hp

OrbPickup(g, i) ==
    LET drop == g.drops[i]
        pl   == g.player
    IN [g EXCEPT !.dead = @ \cup {i},
                 !.player.exp = @ + Rnd(drop.value * ResScale * pl.stats.expMultiplier, ResScale),
                 !.player.bloodEssence = @ + drop.value * ResScale,
                 !.player.hp = OrbHeal(pl),
                 !.hist.picked = @ + drop.value,
                 !.log.picked = Append(@, drop)]

\* PickupTurn with the magnet pulling chests as it pulls orbs
PickupTurnMagnetAll(g, inp, i) ==
    LET drop == g.drops[i]
        pl   == g.player
        magnetRange == Rnd(PLAYER_PICKUP_RANGE * PosScale * pl.stats.magnet, ResScale)
        dir  == normalizeVector(Vec(pl.pos.x - drop.pos.x, pl.pos.y - drop.pos.y))
        g0   == IF DistLess(pl.pos, drop.pos, magnetRange)
                THEN [g EXCEPT !.drops[i].pos = VAdd(@, Step(dir, 12 * ResScale))]
                ELSE g
    IN IF drop.type = "CHEST"
       THEN IF DistLess(pl.pos, drop.pos, pl.radius + drop.radius)
            THEN ChestPickup(g0, inp, i)
            ELSE g0
       ELSE IF DistLess(pl.pos, drop.pos, magnetRange)
       THEN IF DistLess(pl.pos, drop.pos, pl.radius + drop.radius)
            THEN OrbPickup(g0, i)
            ELSE g0
       ELSE g

\* PickupTurn without the pull of the magnet
PickupTurnNoPull(g, inp, i) ==
    LET drop == g.drops[i]
        pl   == g.player
    IN IF DistLess(pl.pos, drop.pos, pl.radius + drop.radius)
       THEN IF drop.type = "CHEST" THEN ChestPickup(g, inp, i) ELSE OrbPickup(g, i)
       ELSE g

PickupTurn(g, inp, i) ==
    LET drop == g.drops[i]
        pl   == g.player
        magnetRange == Rnd(PLAYER_PICKUP_RANGE * PosScale * pl.stats.magnet, ResScale)
        dir  == normalizeVector(Vec(pl.pos.x - drop.pos.x, pl.pos.y - drop.pos.y))
    IN IF drop.type = "CHEST"
       THEN IF DistLess(pl.pos, drop.pos, pl.radius + drop.radius)
            THEN ChestPickup(g, inp, i)
            ELSE g
       ELSE IF DistLess(pl.pos, drop.pos, magnetRange)
       THEN LET g1 == [g EXCEPT !.drops[i].pos = VAdd(@, Step(dir, 12 * ResScale))]
            IN IF DistLess(pl.pos, drop.pos, pl.radius + drop.radius)
               THEN OrbPickup(g1, i)
               ELSE g1
       ELSE g

RECURSIVE PickupLoop(_, _, _)
PickupLoop(g, inp, i) == IF i < 1 THEN g ELSE PickupLoop(PickupTurn(g, inp, i), inp, i - 1)

PickupStep(g, inp) ==
    LET g1 == PickupLoop([g EXCEPT !.dead = {}], inp, Len(g.drops))
    IN [g1 EXCEPT !.drops = Without(g1.drops, g1.dead), !.dead = {}]

\* --- 10. Level Up; onLevelUp(player) is handleLevelUp of App.tsx, which offers inp.offer

\* NextLevelExp that leaves the threshold as it is
NextLevelExpFlat(n) == n

NextLevelExp(n) == FloorRes(Rnd(n * 1200, ResScale)) + 10 * ResScale

\* ExpCarried that starts the new level at 0 exp
ExpDropped(pl) == 0

\* player.exp -= player.nextLevelExp
ExpCarried(pl) == pl.exp - pl.nextLevelExp

\* LevelUpStep that needs more exp than nextLevelExp
LevelUpStepStrict(g0, inp) ==
    LET g  == [g0 EXCEPT !.log.exp = g0.player.exp]
        pl == g.player
    IN IF pl.exp > pl.nextLevelExp
       THEN [g EXCEPT !.player.level = @ + 1,
                      !.player.exp = ExpCarried(pl),
                      !.player.nextLevelExp = NextLevelExp(@),
                      !.pending = "LEVEL_UP",
                      !.upgrades = inp.offer,
                      !.hist.paid = @ + pl.nextLevelExp,
                      !.log.events = Append(@, "levelUp")]
       ELSE g

LevelUpStep(g0, inp) ==
    LET g  == [g0 EXCEPT !.log.exp = g0.player.exp]
        pl == g.player
    IN IF pl.exp >= pl.nextLevelExp
       THEN [g EXCEPT !.player.level = @ + 1,
                      !.player.exp = ExpCarried(pl),
                      !.player.nextLevelExp = NextLevelExp(@),
                      !.pending = "LEVEL_UP",
                      !.upgrades = inp.offer,
                      !.hist.paid = @ + pl.nextLevelExp,
                      !.log.events = Append(@, "levelUp")]
       ELSE g

\* --- 11. Blood Frenzy
FrenzyDrain(p) == Rnd(FRENZY_DRAIN_RATE * ResScale, p.stats.frenzyEfficiency)

\* FrenzyOver that ends the frenzy below one unit of essence
FrenzyOverEarly(p) == p.bloodEssence < ResScale

\* if (player.bloodEssence <= 0) player.isFrenzy = false
FrenzyOver(p) == p.bloodEssence <= 0

FrenzyStep(g0) ==
    LET g  == [g0 EXCEPT !.log.essence = g0.player.bloodEssence]
        g1 == IF ~g.player.isFrenzy /\ g.player.bloodEssence >= FRENZY_THRESHOLD * ResScale
              THEN [g EXCEPT !.player.isFrenzy = TRUE, !.player.frenzyTimer = 0]
              ELSE g
        g2 == IF g1.player.isFrenzy
              THEN LET g3 == [g1 EXCEPT !.player.bloodEssence = @ - FrenzyDrain(g1.player)]
                       g4 == IF g3.frameCount % 30 = 0
                             THEN HurtPlayer(g3, Rnd(g3.player.maxHp * 10, ResScale))
                             ELSE g3
                   IN IF FrenzyOver(g4.player)
                      THEN [g4 EXCEPT !.player.isFrenzy = FALSE]
                      ELSE g4
              ELSE g1
    IN [g2 EXCEPT !.player.bloodEssence = Min2(@, g2.player.maxBloodEssence)]

\* GameOverStep that leaves a level-up or chest reward of the same tick on display
GameOverStepKeep(g) ==
    IF g.player.hp <= 0 /\ g.pending = "PLAYING"
    THEN [g EXCEPT !.pending = "GAME_OVER",
                   !.hist.gameOvers = @ + 1,
                   !.log.events = Append(@, "gameOver")]
    ELSE g

\* --- 12. Game Over
GameOverStep(g) ==
    IF g.player.hp <= 0
    THEN [g EXCEPT !.pending = "GAME_OVER",
                   !.hist.gameOvers = @ + 1,
                   !.log.events = Append(@, "gameOver")]
    ELSE g

\* the body of updateGame after its two guards
Simulate(g, inp) ==
    GameOverStep(
      FrenzyStep(
        LevelUpStep(
          PickupStep(
            CleanupStep(
              ProjectileStep(
                WeaponStep(
                  EnemyStep(
                    SpawnStep(
                      MoveStep(SystemsStep(g), inp), inp), inp), inp), inp)), inp), inp)))

(***************************************************************************)
(* State                                                                   *)
(***************************************************************************)
VARIABLES
    gameState,    \* App: the GameStateEnum value every handler closes over
    player,       \* playerRef.current
    enemies,      \* enemiesRef.current
    projectiles,  \* projectilesRef.current
    drops,        \* dropsRef.current
    frameCount,   \* frameCountRef.current
    score,        \* scoreRef.current
    hitStop,      \* hitStopRef.current
    upgrades,     \* App: the ids of the upgrade options on offer
    chestReward,  \* App: the reward on display, "NONE" for null
    nextId,       \* the next fresh entity id (the code draws ids at random)
    log,          \* the log of the last call of updateGame that changed state
    hist          \* history of the run: picked, paid, gameOvers, sinceFire

vars == <<gameState, player, enemies, projectiles, drops, frameCount, score,
          hitStop, upgrades, chestReward, nextId, log, hist>>

\* hist: picked     sum of the values of the orbs picked up in this run
\*       paid       sum of the nextLevelExp thresholds subtracted in this run
\*       gameOvers  number of onGameOver calls in this run
\*       sinceFire  per weapon type, simulated ticks since it last fired (-1: never)
\*       ticks      simulated ticks since the initial state of the model
EmptyHist ==
    [picked |-> 0, paid |-> 0, gameOvers |-> 0,
     sinceFire |-> [w \in WeaponTypes |-> -1], ticks |-> 0]

\* the state a call of updateGame starts from
Current ==
    [player |-> player, enemies |-> enemies, projectiles |-> projectiles,
     drops |-> drops, frameCount |-> frameCount, score |-> score,
     hitStop |-> hitStop, upgrades |-> upgrades, chestReward |-> chestReward,
     nextId |-> nextId, pending |-> gameState, dead |-> {},
     log |-> [EmptyLog EXCEPT !.simulated = TRUE], hist |-> hist]

Commit(g) ==
    /\ gameState' = g.pending
    /\ player' = g.player
    /\ enemies' = g.enemies
    /\ projectiles' = g.projectiles
    /\ drops' = g.drops
    /\ frameCount' = g.frameCount
    /\ score' = g.score
    /\ hitStop' = g.hitStop
    /\ upgrades' = g.upgrades
    /\ chestReward' = g.chestReward
    /\ nextId' = g.nextId
    /\ log' = g.log
    /\ hist' = g.hist

\* the MENU effect of GameCanvas (frameCountRef is not reset)
ResetRefs ==
    /\ player' = StartPlayer
    /\ enemies' = <<>>
    /\ projectiles' = <<>>
    /\ drops' = <<>>
    /\ score' = 0
    /\ hitStop' = 0
    /\ log' = EmptyLog
    /\ hist' = [EmptyHist EXCEPT !.ticks = hist.ticks]

(***************************************************************************)
(* Bounds of the model                                                     *)
(***************************************************************************)
\* the model simulates at most this many ticks after its initial state
MaxTicks == 110

(***************************************************************************)
(* Actions                                                                 *)
(***************************************************************************)
\* Running that stops the simulation only while paused
RunningUnlessPaused(state) == state # "PAUSED"

\* Running that also simulates while an upgrade or a chest reward is on display
RunningWhileChoosing(state) == state \in {"PLAYING", "LEVEL_UP", "CHEST_REWARD"}

\* the first guard of updateGame: if (gameState !== GameStateEnum.PLAYING) return
Running(state) == state = "PLAYING"

\* HitStopActive that lets the last frozen tick simulate
HitStopActiveLate(n) == n > 1

\* the second guard of updateGame: if (hitStopRef.current > 0)
HitStopActive(n) == n > 0

\* the frame of updateGame that the hit stop freezes
HitStopFrame ==
    /\ hitStop' = hitStop - 1
    /\ log' = EmptyLog
    /\ UNCHANGED <<gameState, player, enemies, projectiles, drops, frameCount,
                   score, upgrades, chestReward, nextId, hist>>

\* updateGame, called once per animation frame with the draws of Inputs
updateGame(Inputs) ==
    IF ~Running(gameState)
    THEN UNCHANGED vars
    ELSE IF HitStopActive(hitStop)
    THEN HitStopFrame
    ELSE /\ hist.ticks < MaxTicks
         /\ \E inp \in Inputs : Commit(Simulate(Current, inp))

\* startGame (App)
startGame ==
    /\ gameState = "MENU"
    /\ gameState' = "PLAYING"
    /\ UNCHANGED <<player, enemies, projectiles, drops, frameCount, score, hitStop,
                   upgrades, chestReward, nextId, log, hist>>

\* the pause button and the Escape key
pause ==
    /\ gameState = "PLAYING"
    /\ gameState' = "PAUSED"
    /\ UNCHANGED <<player, enemies, projectiles, drops, frameCount, score, hitStop,
                   upgrades, chestReward, nextId, log, hist>>

resume ==
    /\ gameState = "PAUSED"
    /\ gameState' = "PLAYING"
    /\ UNCHANGED <<player, enemies, projectiles, drops, frameCount, score, hitStop,
                   upgrades, chestReward, nextId, log, hist>>

\* the menu buttons of the pause and game-over screens, and the MENU effect
toMenu ==
    /\ gameState \in {"PAUSED", "GAME_OVER"}
    /\ gameState' = "MENU"
    /\ ResetRefs
    /\ UNCHANGED <<frameCount, upgrades, chestReward, nextId>>

\* selectUpgrade(option) for an option on offer
selectUpgrade(id) ==
    /\ gameState = "LEVEL_UP"
    /\ id \in upgrades
    /\ player' = ApplyUpgrade(player, MASTER_POOL[id])
    /\ gameState' = "PLAYING"
    /\ UNCHANGED <<enemies, projectiles, drops, frameCount, score, hitStop,
                   upgrades, chestReward, nextId, log, hist>>

\* closeChestReward; the button exists only while a reward is on display
closeChestReward ==
    /\ gameState = "CHEST_REWARD"
    /\ chestReward # "NONE"
    /\ chestReward' = "NONE"
    /\ gameState' = "PLAYING"
    /\ UNCHANGED <<player, enemies, projectiles, drops, frameCount, score, hitStop,
                   upgrades, nextId, log, hist>>

\* handleDash with the movement input move; bound to keys and to a button that
\* exist only while PLAYING
handleDash(move) ==
    LET dash == IF move.x = 0 /\ move.y = 0
                THEN Vec(Cos(player.rotation), Sin(player.rotation))
                ELSE move
    IN /\ gameState = "PLAYING"
       /\ player.dashTimer <= 0
       /\ dash.x # 0 \/ dash.y # 0
       /\ player' = [player EXCEPT !.pos = VAdd(@, Step(dash, 100 * ResScale)),
                                   !.dashTimer = player.maxDashTimer]
       /\ UNCHANGED <<gameState, enemies, projectiles, drops, frameCount, score,
                      hitStop, upgrades, chestReward, nextId, log, hist>>

\* handleGenerateAssets (App): MENU -> ASSET_GEN, and back to MENU when the
\* request settles, which runs the MENU effect again
generateAssets ==
    /\ gameState = "MENU"
    /\ gameState' = "ASSET_GEN"
    /\ UNCHANGED <<player, enemies, projectiles, drops, frameCount, score, hitStop,
                   upgrades, chestReward, nextId, log, hist>>

assetsDone ==
    /\ gameState = "ASSET_GEN"
    /\ gameState' = "MENU"
    /\ ResetRefs
    /\ UNCHANGED <<frameCount, upgrades, chestReward, nextId>>

(***************************************************************************)
(* Inputs of a tick and snapshots of a run in progress                     *)
(***************************************************************************)
\* the movement input: the zero vector, or a unit vector along an axis
Left  == Vec(-DirScale, 0)
Right == Vec(DirScale, 0)
Up    == Vec(0, -DirScale)
Down  == Vec(0, DirScale)

\* the draws of spawnEnemy: straight to the left of the player, a peasant
SpawnLeft == [angle |-> PI, jitter |-> 0, rand |-> 0]

\* every (projectile, enemy) pair draws a critical hit / none does
AllPairs == (1..(nextId + 8)) \X (1..(nextId + 8))

\* a tick's inputs around the given movement, charger triggers, dodges, crits,
\* healing chests and upgrade offer
Input(move, trig, dodge, crit, chestHeal, offer) ==
    [move |-> move, spawn |-> SpawnLeft, elite |-> SpawnLeft,
     trig |-> trig, timer |-> 100, dodge |-> dodge, crit |-> crit,
     palmAngle |-> PI, guqin |-> <<Vec(-80 * PosScale, 0), Vec(0, 80 * PosScale)>>,
     chestHeal |-> chestHeal, chestPick |-> 0, offer |-> offer]

\* an enemy of the given archetype that has walked to pos since it was spawned
EnemyAt(id, type, isElite, pos) ==
    [spawnEnemy(pos, type, isElite, SpawnLeft, id) EXCEPT !.pos = pos]

\* a resource orb of the given value lying at pos
OrbAt(id, pos, value) ==
    [id |-> id, pos |-> pos, radius |-> 5 * PosScale, value |-> value, type |-> "BLOOD"]

\* the player after the level-ups that selected the options ids[1..n], in order
RECURSIVE Veteran(_, _)
Veteran(ids, n) ==
    IF n = 0 THEN StartPlayer
    ELSE LET p == Veteran(ids, n - 1)
         IN [ApplyUpgrade(p, MASTER_POOL[ids[n]])
                EXCEPT !.level = p.level + 1,
                       !.nextLevelExp = NextLevelExp(p.nextLevelExp)]

\* the thresholds paid by a player of the given level
RECURSIVE PaidAt(_)
PaidAt(level) ==
    IF level <= 1 THEN 0
    ELSE PaidAt(level - 1) + Veteran([i \in 1..(level - 2) |-> "com_speed"], level - 2).nextLevelExp

\* the history of a run that led to player p with all orbs worth their value
HistOf(p) ==
    [EmptyHist EXCEPT !.paid = PaidAt(p.level),
                      !.picked = (PaidAt(p.level) + p.exp) \div ResScale]

Snapshot(p, en, pr, dr, fc, sc, nid) ==
    /\ gameState = "PLAYING"
    /\ player = p
    /\ enemies = en
    /\ projectiles = pr
    /\ drops = dr
    /\ frameCount = fc
    /\ score = sc
    /\ hitStop = 0
    /\ upgrades = {}
    /\ chestReward = "NONE"
    /\ nextId = nid
    /\ log = EmptyLog
    /\ hist = HistOf(p)

(***************************************************************************)
(* Spec: the program from its construction, the player walking to the     *)
(* right.  The first enemies need more ticks than MaxTicks to reach the    *)
(* player, so the runs in progress of the specifications below start from  *)
(* states of later frames; selectUpgrade and closeChestReward, which need  *)
(* a level-up or a chest, act there.                                       *)
(***************************************************************************)
Init ==
    /\ gameState = "MENU"
    /\ player = StartPlayer
    /\ enemies = <<>>
    /\ projectiles = <<>>
    /\ drops = <<>>
    /\ frameCount = 0
    /\ score = 0
    /\ hitStop = 0
    /\ upgrades = {}
    /\ chestReward = "NONE"
    /\ nextId = 1
    /\ log = EmptyLog
    /\ hist = EmptyHist

Offers == {{"wp_dagger", "rare_cd", "leg_frenzy"}}

Inputs == {Input(Right, {}, {}, {}, {}, o) : o \in Offers}

Next ==
    \/ updateGame(Inputs)
    \/ startGame
    \/ pause
    \/ resume
    \/ toMenu
    \/ generateAssets
    \/ assetsDone

Spec == Init /\ [][Next]_vars

(***************************************************************************)
(* SpecCombat: a run in progress at the right edge of the world, the       *)
(* player standing at the clamp limit or having just dashed 100 units      *)
(* beyond it (handleDash does not clamp).  Two peasants walk stacked on    *)
(* each other (enemies do not collide with each other), a cultist follows  *)
(* them, an archer is about to shoot.  The player stands still.            *)
(***************************************************************************)
Loadouts ==
    {<<>>, <<"wp_sword">>, <<"wp_palm">>, <<"wp_bell">>, <<"wp_dagger">>,
     <<"wp_kunai">>, <<"wp_blade">>, <<"wp_guqin">>, <<"wp_staff">>,
     <<"rare_cd", "wp_dagger">>, <<"wp_kunai", "wp_guqin", "leg_might">>}

EdgePos == Vec((WORLD_WIDTH - 25) * PosScale, (WORLD_HEIGHT * PosScale) \div 2)

BeyondEdge == VAdd(EdgePos, Vec(100 * PosScale, 0))

CombatPlayer(ids, pos) ==
    [Veteran(ids, Len(ids)) EXCEPT !.pos = pos,
                                   !.dashTimer = IF pos = EdgePos THEN 0 ELSE PLAYER_DASH_COOLDOWN,
                                   !.hp = 90 * ResScale, !.exp = 4 * ResScale]

CombatEnemies ==
    <<EnemyAt(1, "PEASANT", FALSE, VAdd(EdgePos, Vec(-150 * PosScale, 0))),
      EnemyAt(2, "PEASANT", FALSE, VAdd(EdgePos, Vec(-150 * PosScale, PosScale))),
      EnemyAt(3, "CULTIST", FALSE, VAdd(EdgePos, Vec(-220 * PosScale, -20 * PosScale))),
      [EnemyAt(4, "ARCHER", FALSE, VAdd(EdgePos, Vec(-300 * PosScale, 30 * PosScale)))
          EXCEPT !.stateTimer = 20]>>

InitCombat ==
    \E ids \in Loadouts, pos \in {EdgePos, BeyondEdge} :
        Snapshot(CombatPlayer(ids, pos), CombatEnemies, <<>>, <<>>, 2399, 300, 5)

InputsCombat == {Input(ZeroVec, {}, {}, c, {}, o) : c \in {{}, AllPairs}, o \in Offers}

NextCombat ==
    \/ updateGame(InputsCombat)
    \/ pause
    \/ resume

SpecCombat == InitCombat /\ [][NextCombat]_vars

\* the animation-frame loop calls updateGame again after every frame
SpecCombatLive ==
    SpecCombat /\ WF_vars(Running(gameState) /\ HitStopActive(hitStop) /\ HitStopFrame)

(***************************************************************************)
(* Properties of the projectile loop and of the weapon cooldowns           *)
(***************************************************************************)
SeqSet(s) == {s[i] : i \in 1..Len(s)}

\* the step is a simulated tick: a call of updateGame that passed both guards
Ticked == frameCount' = frameCount + 1
NoRepeat(s) == \A i, j \in 1..Len(s) : i # j => s[i] # s[j]

\* the player's projectiles in the list and those removed by the last tick
PlayerProjectiles ==
    {p \in SeqSet(projectiles) \cup SeqSet(log.removed) : p.owner = "PLAYER"}

\* C1: a player projectile damages an enemy at most once in its lifetime, and
\* the enemy's id enters its hit-set at most once: the enemies it has damaged
\* are pairwise distinct and are exactly its hit-set, and no tick records two
\* hits of the same projectile on the same enemy.
HitOnce ==
    /\ \A p \in PlayerProjectiles : NoRepeat(p.hitLog) /\ SeqSet(p.hitLog) = p.hitIds
    /\ NoRepeat([i \in 1..Len(log.hits) |-> <<log.hits[i].pid, log.hits[i].eid>>])

\* a tick skipped a pair of the hit-set while projectile and enemy still overlap
HitOnceWitness ==
    /\ log.simulated
    /\ \E p \in SeqSet(projectiles), e \in SeqSet(enemies) :
          /\ p.owner = "PLAYER"
          /\ e.id \in p.hitIds
          /\ checkCollision(p, e)
          /\ \A i \in 1..Len(log.hits) : <<log.hits[i].pid, log.hits[i].eid>> # <<p.id, e.id>>

\* C2: a player projectile created with pierce k damages at most k distinct
\* enemies and its pierce never drops below 0.
PierceBound ==
    \A p \in PlayerProjectiles : Cardinality(p.hitIds) <= p.pierce0 /\ p.pierce >= 0

\* C3: in a simulated tick a projectile is removed iff after its move and
\* collisions its duration is <= 0, or its pierce is <= 0, or it does not orbit
\* and lies more than 100 units outside the world; the survivors are exactly
\* the projectiles kept, all with duration > 0 and pierce > 0; no projectile is
\* processed twice, and every projectile of the list before the tick is
\* processed.
MustGo(p) ==
    \/ p.duration <= 0
    \/ p.pierce <= 0
    \/ /\ ~p.isOrbiting
       /\ \/ p.pos.x < -100 * PosScale
          \/ p.pos.x > (WORLD_WIDTH + 100) * PosScale
          \/ p.pos.y < -100 * PosScale
          \/ p.pos.y > (WORLD_HEIGHT + 100) * PosScale

Reverse(s) == [i \in 1..Len(s) |-> s[Len(s) + 1 - i]]

RemovalRule ==
    Ticked =>
        /\ \A p \in SeqSet(log'.removed) : MustGo(p)
        /\ \A p \in SeqSet(log'.kept) : ~MustGo(p)
        /\ projectiles' = Reverse(log'.kept)
        /\ \A p \in SeqSet(projectiles') : p.duration > 0 /\ p.pierce > 0
        /\ NoRepeat([i \in 1..Len(log'.removed \o log'.kept) |-> (log'.removed \o log'.kept)[i].id])
        /\ \A p \in SeqSet(projectiles) :
              \E q \in SeqSet(log'.removed \o log'.kept) : q.id = p.id

RemovalRuleHolds == [][RemovalRule]_vars

\* a tick removed a projectile for its position and kept an orbiting one that
\* lies outside the margin
RemovalRuleWitness ==
    /\ log.simulated
    /\ \E p \in SeqSet(log.removed) : p.duration > 0 /\ p.pierce > 0
    /\ \E p \in SeqSet(log.kept) : p.isOrbiting /\ OutOfWorld(p)

\* C9: in a simulated tick every equipped weapon other than the Golden Bell
\* either has cooldownTimer > 0, loses exactly stats.cooldown and does not
\* fire, or fires once (its new projectiles go through the projectile list) and
\* restarts at baseCooldown; with the cooldown stat at 1 consecutive shots of a
\* weapon are baseCooldown + 1 simulated ticks apart.
Shots(l, i) == {k \in 1..Len(l.fired) : l.fired[k].weapon = i}

CooldownOf(i) ==
    LET w == player.weapons[i]
        t == player'.weapons[i].cooldownTimer
    IN IF w.cooldownTimer > 0
       THEN /\ t = w.cooldownTimer - player.stats.cooldown
            /\ Shots(log', i) = {}
       ELSE /\ t = w.baseCooldown
            /\ Cardinality(Shots(log', i)) = 1
            /\ \A k \in Shots(log', i) :
                  /\ log'.fired[k].type = w.type
                  /\ log'.fired[k].ids \subseteq
                        {q.id : q \in SeqSet(log'.removed \o log'.kept)}
                  /\ (player.stats.cooldown = ResScale /\ log'.fired[k].gap >= 0)
                        => log'.fired[k].gap * ResScale = w.baseCooldown + ResScale

CooldownRule ==
    Ticked =>
        \A i \in 1..Len(player.weapons) :
            player.weapons[i].type # "GOLDEN_BELL" => CooldownOf(i)

CooldownRuleHolds == [][CooldownRule]_vars

\* a weapon has just fired for the second time, with the cooldown stat at 1
CooldownRuleWitness ==
    /\ log.simulated
    /\ player.stats.cooldown = ResScale
    /\ \E k \in 1..Len(log.fired) : log.fired[k].gap > 0 /\ log.fired[k].type = "GUQIN"

(***************************************************************************)
(* SpecFrenzy: a run in progress in the middle of the world.  The player   *)
(* stands still among resource orbs; an almost dead elite stands on the    *)
(* player and two peasants and a cultist walk in.  The player is about to  *)
(* enter the frenzy, or is in it with little essence left.                 *)
(***************************************************************************)
MidPos == StartPlayer.pos

\* the upgrades selected so far, frenzy on, essence in thousandths
FrenzyCases ==
    {[ids |-> <<"wp_dagger">>, on |-> FALSE, essence |-> 97000, short |-> 4],
     [ids |-> <<"leg_frenzy">>, on |-> FALSE, essence |-> 98000, short |-> 4],
     [ids |-> <<"wp_dagger", "leg_frenzy">>, on |-> TRUE,
      essence |-> 100000 - 200 * 417, short |-> 9],
     [ids |-> <<"wp_kunai">>, on |-> TRUE, essence |-> 10000, short |-> 9],
     [ids |-> <<"leg_frenzy", "leg_frenzy">>, on |-> TRUE,
      essence |-> 100000 - 260 * 357, short |-> 9]}

\* short: the exp missing for the next level
FrenzyPlayer(c) ==
    LET p == Veteran(c.ids, Len(c.ids))
    IN [p EXCEPT !.isFrenzy = c.on, !.bloodEssence = c.essence,
                 !.exp = p.nextLevelExp - c.short * ResScale, !.hp = 60 * ResScale]

FrenzyEnemies ==
    <<[EnemyAt(1, "PEASANT", TRUE, VAdd(MidPos, Vec(10 * PosScale, 0)))
          EXCEPT !.hp = 8 * ResScale],
      EnemyAt(2, "PEASANT", FALSE, VAdd(MidPos, Vec(-130 * PosScale, 0))),
      EnemyAt(3, "CULTIST", FALSE, VAdd(MidPos, Vec(0, 140 * PosScale))),
      [EnemyAt(4, "CULTIST", FALSE, VAdd(MidPos, Vec(0, -120 * PosScale)))
          EXCEPT !.hp = 12 * ResScale]>>

FrenzyDrops ==
    <<OrbAt(5, VAdd(MidPos, Vec(20 * PosScale, 0)), 5),
      OrbAt(6, VAdd(MidPos, Vec(0, -100 * PosScale)), 1),
      OrbAt(7, VAdd(MidPos, Vec(-150 * PosScale, 0)), 1),
      OrbAt(8, VAdd(MidPos, Vec(120 * PosScale, 90 * PosScale)), 1)>>

InitFrenzy ==
    \E c \in FrenzyCases :
        Snapshot(FrenzyPlayer(c), FrenzyEnemies, <<>>, FrenzyDrops, 2399, 450, 9)

OffersFrenzy == {{"leg_frenzy", "rare_exp", "com_magnet"}}

InputsFrenzy ==
    {Input(ZeroVec, {}, {}, {}, h, o) : h \in {{}, 1..(nextId + 8)}, o \in OffersFrenzy}

NextFrenzy ==
    \/ updateGame(InputsFrenzy)
    \/ pause
    \/ resume
    \/ \E id \in OptionIds : selectUpgrade(id)
    \/ closeChestReward

SpecFrenzy == InitFrenzy /\ [][NextFrenzy]_vars

(***************************************************************************)
(* Properties of the blood essence, the frenzy and the experience ledger   *)
(***************************************************************************)
\* C4: at the end of every tick and after every pickup, chest reward or
\* upgrade selection, 0 <= bloodEssence <= maxBloodEssence.
EssenceInRange ==
    /\ 0 <= player.bloodEssence
    /\ player.bloodEssence <= player.maxBloodEssence

\* C5: in a tick the frenzy starts only if it was off and the essence had
\* reached the threshold when the frenzy step began; a frenzy that is on in
\* the frenzy step ends in that tick exactly if the drained essence is <= 0;
\* after a tick, frenzy implies essence > 0; and outside the ticks the frenzy
\* flag changes only when the MENU effect resets the player.
FrenzyRule ==
    /\ Ticked =>
          /\ (~player.isFrenzy /\ player'.isFrenzy)
                => log'.essence >= FRENZY_THRESHOLD * ResScale
          /\ (player.isFrenzy /\ ~player'.isFrenzy) => player'.bloodEssence <= 0
          /\ (player.isFrenzy \/ log'.essence >= FRENZY_THRESHOLD * ResScale)
                => (player'.isFrenzy <=> player'.bloodEssence > 0)
          /\ player'.isFrenzy => player'.bloodEssence > 0
    /\ ~Ticked =>
          \/ player'.isFrenzy = player.isFrenzy
          \/ gameState' = "MENU" /\ ~player'.isFrenzy

FrenzyRuleHolds == [][FrenzyRule]_vars

\* the last tick drained the essence of a running frenzy to <= 0 and ended it
FrenzyRuleWitness ==
    /\ log.simulated
    /\ log.essence > 0
    /\ player.bloodEssence <= 0
    /\ ~player.isFrenzy

\* C10: with expMultiplier = 1 the values of the orbs picked up so far sum to
\* the player's exp plus the thresholds subtracted at the level-ups so far.
ExpLedger ==
    player.stats.expMultiplier = ResScale
        => hist.picked * ResScale = player.exp + hist.paid

\* a tick that picked up orbs, opened a chest and levelled up with exp to spare
ExpLedgerWitness ==
    /\ player.stats.expMultiplier = ResScale
    /\ Len(log.picked) > 0
    /\ \E i, j \in 1..Len(log.events) : log.events[i] = "chest" /\ log.events[j] = "levelUp"
    /\ player.exp > 0

(***************************************************************************)
(* SpecGameOver: a run in progress with the player almost dead, one frame  *)
(* before a contact-damage frame.  Peasants stand on the player; an orb    *)
(* lies within reach, or an almost dead elite stands on the player, who    *)
(* then carries the spirit dagger.                                         *)
(*   hp     the player's hp                                                *)
(*   short  the exp missing for the next level                             *)
(*   foes   the number of peasants in contact                              *)
(*   orb    an orb of value 1 lies 20 units from the player                *)
(*   elite  the elite is there                                             *)
(***************************************************************************)
GameOverCases ==
    {[hp |-> 5,  short |-> 10, foes |-> 1, orb |-> TRUE,  elite |-> FALSE],
     [hp |-> 5,  short |-> 1,  foes |-> 2, orb |-> TRUE,  elite |-> FALSE],
     [hp |-> 5,  short |-> 10, foes |-> 2, orb |-> FALSE, elite |-> TRUE],
     [hp |-> 10, short |-> 10, foes |-> 1, orb |-> FALSE, elite |-> FALSE],
     [hp |-> 15, short |-> 1,  foes |-> 2, orb |-> TRUE,  elite |-> TRUE]}

GameOverPlayer(c) ==
    LET ids == IF c.elite THEN <<"wp_dagger">> ELSE <<>>
        p   == Veteran(ids, Len(ids))
    IN [p EXCEPT !.hp = c.hp * ResScale,
                 !.exp = p.nextLevelExp - c.short * ResScale,
                 !.bloodEssence = 40 * ResScale]

GameOverEnemies(c) ==
    [i \in 1..c.foes |->
        EnemyAt(i, "PEASANT", FALSE, VAdd(MidPos, Vec(-15 * PosScale, (i - 1) * 20 * PosScale)))]
    \o (IF c.elite
        THEN <<[EnemyAt(3, "PEASANT", TRUE, VAdd(MidPos, Vec(10 * PosScale, 0)))
                   EXCEPT !.hp = 8 * ResScale]>>
        ELSE <<>>)

GameOverDrops(c) ==
    IF c.orb THEN <<OrbAt(4, VAdd(MidPos, Vec(0, -20 * PosScale)), 1)>> ELSE <<>>

InitGameOver ==
    \E c \in GameOverCases :
        Snapshot(GameOverPlayer(c), GameOverEnemies(c), <<>>, GameOverDrops(c), 2399, 450, 5)

InputsGameOver ==
    {Input(ZeroVec, {}, {}, {}, h, o) : h \in {{}, 1..(nextId + 8)}, o \in Offers}

NextGameOver ==
    \/ updateGame(InputsGameOver)
    \/ toMenu
    \/ startGame
    \/ \E id \in OptionIds : selectUpgrade(id)
    \/ closeChestReward

SpecGameOver == InitGameOver /\ [][NextGameOver]_vars

(***************************************************************************)
(* Properties of the end of a run                                          *)
(***************************************************************************)
\* C7: onGameOver is called at most once in a run and exactly once when the
\* run has ended; a tick ends in GAME_OVER, calling onGameOver last, exactly if
\* its final check sees hp <= 0, whatever else the tick signalled; and in
\* GAME_OVER nothing changes until the game returns to MENU.
GameOverRule ==
    /\ hist'.gameOvers <= 1
    /\ gameState' = "GAME_OVER" => hist'.gameOvers = 1
    /\ Ticked =>
          /\ player'.hp <= 0 <=> gameState' = "GAME_OVER"
          /\ player'.hp <= 0 =>
                /\ hist'.gameOvers = hist.gameOvers + 1
                /\ log'.events[Len(log'.events)] = "gameOver"
    /\ gameState = "GAME_OVER" => gameState' = "MENU"

GameOverRuleHolds == [][GameOverRule]_vars

\* the run ended in a tick that also signalled a level-up
GameOverRuleWitness ==
    /\ gameState = "GAME_OVER"
    /\ hist.gameOvers = 1
    /\ \E i \in 1..Len(log.events) : log.events[i] = "levelUp"

\* C8: a tick in which the player's hp was <= 0 right after some damage ends
\* in GAME_OVER with onGameOver called.
NoGraceFrame ==
    log.hpLow =>
        /\ gameState = "GAME_OVER"
        /\ \E i \in 1..Len(log.events) : log.events[i] = "gameOver"

(***************************************************************************)
(* SpecCharger: a run in progress in the middle of the world with one      *)
(* enemy of every archetype around the player: a charger that chases, one  *)
(* that winds up, a peasant, a cultist, an archer and the boss.  The       *)
(* player stands still or dashes; a chasing charger in range may start its *)
(* wind-up in any tick.                                                    *)
(***************************************************************************)
ChargerPlayer ==
    [Veteran(<<"com_speed">>, 1) EXCEPT !.dashTimer = PLAYER_DASH_COOLDOWN, !.hp = 95 * ResScale]

ChargerEnemies ==
    <<EnemyAt(1, "CHARGER", FALSE, VAdd(MidPos, Vec(-104 * PosScale, 0))),
      [EnemyAt(2, "CHARGER", FALSE, VAdd(MidPos, Vec(0, 240 * PosScale)))
          EXCEPT !.state = "PREPARING", !.stateTimer = 17, !.hasTarget = TRUE,
                 !.targetPos = MidPos, !.since = 23],
      EnemyAt(3, "PEASANT", FALSE, VAdd(MidPos, Vec(400 * PosScale, 0))),
      EnemyAt(4, "CULTIST", FALSE, VAdd(MidPos, Vec(350 * PosScale, 350 * PosScale))),
      [EnemyAt(5, "ARCHER", FALSE, VAdd(MidPos, Vec(0, -450 * PosScale)))
          EXCEPT !.stateTimer = 60],
      [EnemyAt(6, "BOSS", FALSE, VAdd(MidPos, Vec(-700 * PosScale, -300 * PosScale)))
          EXCEPT !.stateTimer = 90, !.hp = 3200 * ResScale]>>

InitCharger == Snapshot(ChargerPlayer, ChargerEnemies, <<>>, <<>>, 5000, 1500, 7)

InputsCharger ==
    {Input(ZeroVec, t, {}, {}, {}, o) : t \in {{}, 1..nextId}, o \in Offers}

NextCharger ==
    \/ updateGame(InputsCharger)
    \/ \E m \in {ZeroVec, Up} : handleDash(m)

SpecCharger == InitCharger /\ [][NextCharger]_vars

(***************************************************************************)
(* Properties of the enemy states                                          *)
(***************************************************************************)
ChargerCycle ==
    {<<"CHASING", "PREPARING">>, <<"PREPARING", "CHARGING">>,
     <<"CHARGING", "COOLDOWN">>, <<"COOLDOWN", "CHASING">>}

\* the enemy e of the list before the step, seen after the step as f
EnemyMove(e, f) ==
    /\ f.state # "FLEEING"
    /\ e.type # "CHARGER" => e.state = "CHASING" /\ f.state = "CHASING"
    /\ e.type = "CHARGER" =>
          /\ f.state = e.state \/ <<e.state, f.state>> \in ChargerCycle
          /\ (Ticked /\ e.state # "CHASING") =>
                \/ f.state = e.state /\ f.stateTimer = e.stateTimer - 1 /\ f.stateTimer > 0
                \/ <<e.state, f.state>> \in ChargerCycle /\ e.stateTimer <= 1

\* C6: a charger that stays alive changes state only along CHASING ->
\* PREPARING -> CHARGING -> COOLDOWN -> CHASING; outside CHASING every tick
\* either counts its timer down by one or, when the timer has run out, takes
\* the next step of the cycle, whatever the player does; no enemy enters
\* FLEEING; enemies of the other archetypes stay CHASING.
ChargerRule ==
    \A i \in 1..Len(enemies), j \in 1..Len(enemies') :
        enemies[i].id = enemies'[j].id => EnemyMove(enemies[i], enemies'[j])

ChargerRuleHolds == [][ChargerRule]_vars

\* a charger is back to chasing after a full cycle, next to enemies of the
\* other archetypes
ChargerRuleWitness ==
    /\ \E e \in SeqSet(enemies) :
          e.type = "CHARGER" /\ e.state = "CHASING" /\ e.hasTarget /\ e.stateTimer = 0
    /\ \E e \in SeqSet(enemies) : e.type # "CHARGER"

(***************************************************************************)
(* Properties of the level-up step                                         *)
(***************************************************************************)
LevelUps(l) == Cardinality({i \in 1..Len(l.events) : l.events[i] = "levelUp"})

\* the level-up step of a tick, but for the game state the tick ends in
LevelUpEffect ==
    IF log'.exp >= player.nextLevelExp
    THEN /\ player'.level = player.level + 1
         /\ player'.exp = log'.exp - player.nextLevelExp
         /\ player'.nextLevelExp =
               ((player.nextLevelExp * 12) \div (10 * ResScale)) * ResScale + 10 * ResScale
         /\ player'.nextLevelExp > player.nextLevelExp
         /\ LevelUps(log') = 1
    ELSE /\ player'.level = player.level
         /\ player'.nextLevelExp = player.nextLevelExp
         /\ LevelUps(log') = 0
         /\ gameState' # "LEVEL_UP"

\* C11 (as stated): a tick whose level-up check finds exp >= nextLevelExp
\* raises the level by 1, subtracts the old threshold from exp, sets the
\* threshold to floor(old * 1.2) + 10, emits one level-up event and ends in
\* the game state LEVEL_UP; any other tick changes none of these.
LevelUpAlwaysShown ==
    [][Ticked =>
          /\ LevelUpEffect
          /\ log'.exp >= player.nextLevelExp => gameState' = "LEVEL_UP"]_vars

\* C11 (amended): as above, but the tick ends in LEVEL_UP only if the player
\* is alive at its end; with hp <= 0 the game-over step of the same tick
\* sets GAME_OVER after the level-up step has set LEVEL_UP.
LevelUpRule ==
    [][Ticked =>
          /\ LevelUpEffect
          /\ log'.exp >= player.nextLevelExp =>
                gameState' = (IF player'.hp <= 0 THEN "GAME_OVER" ELSE "LEVEL_UP")]_vars

\* a tick has levelled the player up to level 3 (threshold floor(46 * 1.2) + 10)
\* and the upgrade choice is open
LevelUpRuleWitness ==
    /\ log.simulated
    /\ LevelUps(log) = 1
    /\ gameState = "LEVEL_UP"
    /\ player.level = 3
    /\ player.nextLevelExp = 65 * ResScale

(***************************************************************************)
(* SpecModes: the runs of SpecGameOver with every mode switch of the       *)
(* program: pause and resume, the upgrade and chest screens, game over,    *)
(* the menu and the asset generation, and a player who may dash along the  *)
(* facing direction whenever the dash handlers are bound.  The runs end in *)
(* the menu.                                                               *)
(***************************************************************************)
NextModes ==
    \/ updateGame(InputsGameOver)
    \/ pause
    \/ resume
    \/ toMenu
    \/ generateAssets
    \/ assetsDone
    \/ \E id \in OptionIds : selectUpgrade(id)
    \/ closeChestReward
    \/ handleDash(ZeroVec)

SpecModes == InitGameOver /\ [][NextModes]_vars

Timers(p) == [i \in 1..Len(p.weapons) |-> p.weapons[i].cooldownTimer]

\* C12: while the game state is not PLAYING no step changes the frame
\* counter; player, enemies, projectiles, drops, score and hit-stop counter
\* change only when the MENU effect resets them, and the player's record also
\* when selectUpgrade applies the chosen option, which leaves position, dash
\* timer, hp, exp and the cooldown timers of the equipped weapons as they are.
FrozenRule ==
    gameState # "PLAYING" =>
        /\ frameCount' = frameCount
        /\ gameState' # "MENU" =>
              /\ <<enemies, projectiles, drops, score, hitStop>>'
                    = <<enemies, projectiles, drops, score, hitStop>>
              /\ player'.pos = player.pos
              /\ player'.dashTimer = player.dashTimer
              /\ player'.hp = player.hp
              /\ player'.exp = player.exp
              /\ \A i \in 1..Len(player.weapons) : Timers(player')[i] = Timers(player)[i]
        /\ gameState' # "MENU" /\ gameState # "LEVEL_UP" => player' = player

FrozenRuleHolds == [][FrozenRule]_vars

\* the game is paused in the middle of a fight: enemies alive, a dash timer
\* and a weapon cooldown running
FrozenRuleWitness ==
    /\ gameState = "PAUSED"
    /\ log.simulated
    /\ Len(enemies) > 0
    /\ player.dashTimer > 0
    /\ \E i \in 1..Len(player.weapons) : player.weapons[i].cooldownTimer > 0

(***************************************************************************)
(* Properties of the hit stop                                              *)
(***************************************************************************)
CritHit(l) == \E i \in 1..Len(l.hits) : l.hits[i].crit

HitStopRule ==
    /\ hitStop \in 0..3
    /\ Ticked =>
          /\ hitStop = 0
          /\ hitStop' = (IF CritHit(log') THEN 3 ELSE 0)
    /\ hitStop > 0 =>
          /\ UNCHANGED <<player, enemies, projectiles, drops, frameCount, score>>
          /\ \/ hitStop' = hitStop - 1 /\ gameState = "PLAYING" /\ gameState' = "PLAYING"
             \/ hitStop' = hitStop /\ gameState' # gameState

\* C13: a tick with a critical hit of a player projectile ends with the
\* hit-stop counter at 3 (any other simulated tick with 0); while the counter
\* is > 0 a tick only decrements it and leaves frame counter, player (dash
\* timer and weapon cooldowns included), enemies, projectiles, drops and score
\* unchanged; and while the game stays PLAYING the counter returns to 0, so
\* that the simulation resumes after exactly 3 skipped ticks.
HitStopRuleHolds ==
    /\ [][HitStopRule]_vars
    /\ (hitStop > 0) ~> (hitStop = 0 \/ gameState # "PLAYING")

\* the third skipped tick has just passed: the counter is back at 0 with the
\* projectiles still in flight
HitStopRuleWitness ==
    /\ gameState = "PLAYING"
    /\ hitStop = 0
    /\ ~log.simulated
    /\ hist.ticks > 0
    /\ Len(projectiles) > 0
    /\ Len(enemies) > 0

(***************************************************************************)
(* SpecBoss: a run in progress around the score 1500 and the frame 5400:   *)
(* the player, armed with the spirit dagger, is about to kill a peasant    *)
(* that is worth the 10 points missing to the score of the case; the       *)
(* periodic spawn and the elite spawn of frame 5400 draw their archetypes. *)
(***************************************************************************)
BossScores == {0, 1400, 1490, 2990}

BossPlayer == [Veteran(<<"wp_dagger">>, 1) EXCEPT !.hp = 95 * ResScale]

BossEnemies ==
    <<[EnemyAt(1, "PEASANT", FALSE, VAdd(MidPos, Vec(-60 * PosScale, 0)))
          EXCEPT !.hp = 8 * ResScale]>>

InitBoss ==
    \E sc \in BossScores : Snapshot(BossPlayer, BossEnemies, <<>>, <<>>, 5360, sc, 2)

\* the draws of spawnEnemy: a peasant to the right, a cultist or a charger
\* to the left
SpawnDraws ==
    {[angle |-> 0, jitter |-> 0, rand |-> 0],
     [angle |-> PI, jitter |-> 0, rand |-> 800],
     [angle |-> PI, jitter |-> 0, rand |-> 999]}

InputsBoss ==
    {[Input(ZeroVec, {}, {}, {}, {}, o) EXCEPT !.spawn = d, !.elite = d] :
        d \in SpawnDraws, o \in Offers}

NextBoss == updateGame(InputsBoss)

SpecBoss == InitBoss /\ [][NextBoss]_vars

(***************************************************************************)
(* Properties of the spawns                                                *)
(***************************************************************************)
Bosses(en) == {i \in 1..Len(en) : en[i].type = "BOSS"}

\* a tick that adds a boss
BossSpawnRule ==
    Cardinality(Bosses(enemies')) > Cardinality(Bosses(enemies)) =>
        /\ Ticked
        /\ score > 0
        /\ score % 1500 = 0
        /\ Bosses(enemies) = {}
        /\ LET rate == IF 20 - (score \div 500) > 5 THEN 20 - (score \div 500) ELSE 5
           IN frameCount' % rate = 0
        /\ \A i \in Bosses(enemies') : ~enemies'[i].isElite /\ enemies'[i].id >= nextId

\* C14: the enemy list never holds two bosses, and a boss enters it only in a
\* tick of the periodic spawn that starts with score > 0, score a multiple of
\* 1500 and no boss in the list; the elite spawn and the random archetype
\* selection never add one.
BossRuleHolds ==
    /\ [](Cardinality(Bosses(enemies)) <= 1)
    /\ [][BossSpawnRule]_vars

\* the boss has been spawned, and after it, with the boss alive, the periodic
\* spawn and the elite spawn have added other enemies
BossRuleWitness ==
    \E b \in SeqSet(enemies) :
        /\ b.type = "BOSS"
        /\ \E e \in SeqSet(enemies) : e.id > b.id /\ e.isElite
        /\ \E e \in SeqSet(enemies) : e.id > b.id /\ ~e.isElite /\ e.type # "PEASANT"
        /\ score % 1500 = 0

(***************************************************************************)
(* SpecSpawnEnemy: spawnEnemy as a function.  The player stands in the     *)
(* middle or at the right edge of the world; each step calls spawnEnemy    *)
(* with a forced archetype or none, elite or not, and keeps the result in  *)
(* the enemy list, up to MaxSpawned results.                               *)
(***************************************************************************)
MaxSpawned == 2

InitSpawnEnemy ==
    \E pos \in {MidPos, EdgePos} :
        Snapshot([StartPlayer EXCEPT !.pos = pos], <<>>, <<>>, <<>>, 0, 0, 1)

callSpawnEnemy(specificType, isElite, d) ==
    /\ Len(enemies) < MaxSpawned
    /\ enemies' = Append(enemies, spawnEnemy(player.pos, specificType, isElite, d, nextId))
    /\ nextId' = nextId + 1
    /\ UNCHANGED <<gameState, player, projectiles, drops, frameCount, score, hitStop,
                   upgrades, chestReward, log, hist>>

NextSpawnEnemy ==
    \E t \in EnemyTypes \cup {NoType}, el \in BOOLEAN, d \in SpawnDraws :
        callSpawnEnemy(t, el, d)

SpecSpawnEnemy == InitSpawnEnemy /\ [][NextSpawnEnemy]_vars

\* the base table of the archetypes: hp, damage, radius, speed
BaseTable(type) ==
    CASE type = "PEASANT" -> <<30, 5, 22, 2000>>
      [] type = "CULTIST" -> <<80, 10, 25, 2500>>
      [] type = "CHARGER" -> <<160, 15, 30, 1500>>
      [] type = "ARCHER"  -> <<45, 10, 20, 3000>>
      [] type = "BOSS"    -> <<4000, 30, 70, 3500>>

\* C15: an elite of a non-boss archetype has hp = base hp * 3.5 (30 * 3.5 =
\* 105 for the peasant), maxHp = hp, damage * 1.5, radius * 1.3 and speed *
\* 1.1; a boss has the base stats of the boss whether elite is requested or
\* not; and a non-elite has exactly the stats of the base table.
EliteRule ==
    \A e \in SeqSet(enemies) :
        LET b == BaseTable(e.type)
            m == IF e.isElite /\ e.type # "BOSS"
                 THEN <<35, 15, 13, 11>> ELSE <<10, 10, 10, 10>>
        IN /\ e.hp * 10 = b[1] * ResScale * m[1]
           /\ e.maxHp = e.hp
           /\ e.damage * 10 = b[2] * ResScale * m[2]
           /\ e.radius * 10 = b[3] * PosScale * m[3]
           /\ e.speed * 10 = b[4] * m[4]

\* spawnEnemy has returned an elite peasant of 105 hp and a boss requested as
\* an elite
EliteRuleWitness ==
    /\ \E e \in SeqSet(enemies) : e.isElite /\ e.type = "PEASANT" /\ e.hp = 105 * ResScale
    /\ \E e \in SeqSet(enemies) : e.isElite /\ e.type = "BOSS" /\ e.hp = 4000 * ResScale

(***************************************************************************)
(* SpecHoming: a run in progress with the spirit dagger.  A wounded        *)
(* cultist approaches from far on the left, a second one from further      *)
(* away: the first dagger needs more than one cooldown to reach its        *)
(* target, so the second dagger is in flight, aimed at the same cultist,   *)
(* when the first one hits.  In some cases that hit kills the cultist.     *)
(***************************************************************************)
HomingCases ==
    {[ids |-> i, pos |-> q, hp |-> h] :
        i \in {<<"wp_dagger">>, <<"rare_cd", "wp_dagger">>},
        q \in {MidPos, EdgePos},
        h \in {15, 80}}

HomingPlayer(c) ==
    [Veteran(c.ids, Len(c.ids)) EXCEPT !.pos = c.pos, !.hp = 90 * ResScale]

HomingEnemies(c) ==
    <<[EnemyAt(1, "CULTIST", FALSE, VAdd(c.pos, Vec(-540 * PosScale, -120 * PosScale)))
          EXCEPT !.hp = c.hp * ResScale],
      EnemyAt(2, "CULTIST", FALSE, VAdd(c.pos, Vec(-560 * PosScale, 180 * PosScale)))>>

InitHoming ==
    \E c \in HomingCases :
        Snapshot(HomingPlayer(c), HomingEnemies(c), <<>>, <<>>, 2399, 300, 3)

InputsHoming == {Input(ZeroVec, {}, {}, c, {}, o) : c \in {{}, AllPairs}, o \in Offers}

NextHoming == updateGame(InputsHoming)

SpecHoming == InitHoming /\ [][NextHoming]_vars

(***************************************************************************)
(* Properties of the homing bolt                                           *)
(***************************************************************************)
\* projectile p of this tick's start as the tick leaves it, kept or removed
After(p) == {q \in SeqSet(projectiles') \cup SeqSet(log'.removed) : q.id = p.id}

HomingRule ==
    Ticked =>
        \A p \in SeqSet(projectiles) :
            p.visualType = "DAGGER" /\ p.targetId # NoId =>
                \A q \in After(p) :
                    /\ q.targetId = p.targetId
                    /\ q.pos = Vec(p.pos.x + Rnd(q.velocity.x, ResScale \div PosScale),
                                   p.pos.y + Rnd(q.velocity.y, ResScale \div PosScale))
                    /\ IF \E e \in SeqSet(enemies) : e.id = p.targetId
                       THEN 100 * Abs(VecLen(q.velocity) - VecLen(p.velocity))
                               <= VecLen(p.velocity)
                       ELSE q.velocity = p.velocity

\* C16: a homing bolt whose target is no longer in the enemy list keeps its
\* velocity and its targetId in every tick and moves by exactly that
\* velocity, other enemies being alive or not; while the target is in the
\* list the steering keeps the magnitude of the velocity (within the 1% that
\* the rounding of the unit vectors allows) and the bolt moves by the steered
\* velocity.
HomingRuleHolds == [][HomingRule]_vars

\* a bolt has flown on for ten ticks and more after its target was removed,
\* while another enemy is alive
HomingRuleWitness ==
    /\ log.simulated
    /\ Len(enemies) > 0
    /\ \E p \in SeqSet(projectiles) :
          /\ p.visualType = "DAGGER"
          /\ p.targetId = 1
          /\ \A e \in SeqSet(enemies) : e.id # 1
          /\ p.duration < 70

(***************************************************************************)
(* Properties of the player's hp, position and weapon timers               *)
(***************************************************************************)
\* C17: player.hp never exceeds player.maxHp.
HpBound == player.hp <= player.maxHp

\* a tick has picked up an orb while the player was at full hp after the
\* healing chest, and the orb has healed nothing
HpBoundWitness ==
    /\ log.simulated
    /\ Len(log.picked) > 0
    /\ chestReward = "HEAL"
    /\ player.hp = player.maxHp

(***************************************************************************)
(* SpecDash: a run in progress at the right edge of the world, the field   *)
(* cleared of enemies.  The player, facing right, stands still or pushes   *)
(* against the edge, and dashes whenever the dash is ready.                *)
(***************************************************************************)
InitDash == Snapshot(CombatPlayer(<<>>, EdgePos), <<>>, <<>>, <<>>, 2399, 300, 5)

InputsDash == {Input(m, {}, {}, {}, {}, o) : m \in {ZeroVec, Right}, o \in Offers}

NextDash ==
    \/ updateGame(InputsDash)
    \/ \E m \in {ZeroVec, Right} : handleDash(m)

SpecDash == InitDash /\ [][NextDash]_vars

\* C18: at the end of every tick the player's position lies within the world,
\* at least its radius away from every edge.
PositionInWorld ==
    log.simulated =>
        /\ player.radius <= player.pos.x
        /\ player.pos.x <= WORLD_WIDTH * PosScale - player.radius
        /\ player.radius <= player.pos.y
        /\ player.pos.y <= WORLD_HEIGHT * PosScale - player.radius

\* C19: the cooldownTimer of every equipped weapon stays within
\* [0, baseCooldown].
TimersInRange ==
    \A i \in 1..Len(player.weapons) :
        /\ 0 <= player.weapons[i].cooldownTimer
        /\ player.weapons[i].cooldownTimer <= player.weapons[i].baseCooldown

(***************************************************************************)
(* Properties of the dead-enemy cleanup                                    *)
(***************************************************************************)
RECURSIVE SumFrom(_, _)
SumFrom(seq, i) == IF i > Len(seq) THEN 0 ELSE seq[i] + SumFrom(seq, i + 1)

KillScore(e) == IF e.isElite THEN 100 ELSE 10

\* the drops created in the tick that are still on the ground or were picked
\* up as orbs in the same tick
NewDrops == {d \in SeqSet(drops') \cup SeqSet(log'.picked) : d.id >= nextId}

ChestsOpened(l) == Cardinality({i \in 1..Len(l.events) : l.events[i] = "chest"})

CleanupRule ==
    Ticked =>
        LET killed == log'.killed
            gone   == {e.id : e \in SeqSet(enemies)} \ {e.id : e \in SeqSet(enemies')}
        IN /\ \A e \in SeqSet(enemies') : e.hp > 0
           /\ NoRepeat([i \in 1..Len(killed) |-> killed[i].id])
           /\ \A k \in SeqSet(killed) : k.hp <= 0
           /\ gone = {k.id : k \in SeqSet(killed)}
           /\ score' = score + SumFrom([i \in 1..Len(killed) |-> KillScore(killed[i])], 1)
           /\ Len(drops') + Len(log'.picked) + ChestsOpened(log')
                 = Len(drops) + Len(killed)
           /\ \A d \in NewDrops :
                 \E k \in SeqSet(killed) :
                    /\ (d.type = "CHEST") = (k.isElite \/ k.type = "BOSS")
                    /\ IF d.type = "CHEST" THEN d.pos = k.pos
                       ELSE DistLess(d.pos, k.pos, 13 * PosScale)
           /\ \A k \in SeqSet(killed) : \A e \in SeqSet(enemies) :
                 e.id = k.id /\ FindWeapon(player.weapons, "GOLDEN_BELL") = 0 =>
                    LET dealt(h) == IF h.eid = k.id THEN h.applied ELSE 0
                    IN k.hp = e.hp - SumFrom([i \in 1..Len(log'.hits) |-> dealt(log'.hits[i])], 1)

\* C20: a tick removes exactly the enemies whose hp is <= 0 when the cleanup
\* runs, each once, with one drop each (a chest at its position for an elite
\* or a boss, an orb otherwise, which the magnet may already have pulled 12
\* units) and 100 or 10 points each; the removed enemy has taken every
\* projectile hit of the tick (its hp is the old hp minus all of them, the
\* bell aura aside); no enemy with hp > 0 is removed and none with hp <= 0 is
\* left.
CleanupRuleHolds == [][CleanupRule]_vars

\* a tick has removed an enemy that two projectiles hit in that same tick
CleanupRuleWitness ==
    /\ log.simulated
    /\ \E k \in SeqSet(log.killed) :
          Cardinality({i \in 1..Len(log.hits) : log.hits[i].eid = k.id}) >= 2

(***************************************************************************)
(* SpecChest: a run in progress in the middle of the world with the field  *)
(* cleared of enemies.  Three chests and two orbs lie to the right of the  *)
(* player: a chest 60 units away, one 130 units away, one 100 units off    *)
(* the player's path, which the player passes within the magnet radius     *)
(* without touching it.  The player waits or walks during the first ticks  *)
(* and then walks to the right; every chest draws its reward.              *)
(***************************************************************************)
ChestAt(id, pos) ==
    [id |-> id, pos |-> pos, radius |-> 15 * PosScale, value |-> 1, type |-> "CHEST"]

ChestPlayer ==
    LET p == Veteran(<<"com_magnet">>, 1)
    IN [p EXCEPT !.hp = 60 * ResScale, !.exp = p.nextLevelExp - 5 * ResScale,
                 !.bloodEssence = 40 * ResScale]

ChestDrops ==
    <<ChestAt(1, VAdd(MidPos, Vec(60 * PosScale, 0))),
      OrbAt(2, VAdd(MidPos, Vec(100 * PosScale, 10 * PosScale)), 5),
      ChestAt(3, VAdd(MidPos, Vec(130 * PosScale, 0))),
      ChestAt(4, VAdd(MidPos, Vec(100 * PosScale, 100 * PosScale))),
      OrbAt(5, VAdd(MidPos, Vec(300 * PosScale, 0)), 1)>>

InitChest == Snapshot(ChestPlayer, <<>>, <<>>, ChestDrops, 2401, 300, 6)

InputsChest ==
    {Input(m, {}, {}, {}, h, o) :
        m \in (IF hist.ticks < 6 THEN {ZeroVec, Right} ELSE {Right}),
        h \in {{}, 1..(nextId + 8)},
        o \in Offers}

NextChest ==
    \/ updateGame(InputsChest)
    \/ closeChestReward
    \/ \E id \in OptionIds : selectUpgrade(id)

SpecChest == InitChest /\ [][NextChest]_vars

(***************************************************************************)
(* Properties of the chests                                                *)
(***************************************************************************)
Chests(dr) == {d \in SeqSet(dr) : d.type = "CHEST"}

\* the chest drops of the enemies the tick has killed
ChestKills(l) ==
    Cardinality({i \in 1..Len(l.killed) : l.killed[i].isElite \/ l.killed[i].type = "BOSS"})

\* exp and essence that the orbs picked up in the tick are worth
PickedExp(l, p) ==
    SumFrom([i \in 1..Len(l.picked) |->
                Rnd(l.picked[i].value * ResScale * p.stats.expMultiplier, ResScale)], 1)

PickedEssence(l) == SumFrom([i \in 1..Len(l.picked) |-> l.picked[i].value * ResScale], 1)

\* what a tick does to the chests, but for the blood essence
ChestEffect ==
    /\ \A d \in Chests(drops) :
          IF \E f \in SeqSet(drops') : f.id = d.id
          THEN \A f \in SeqSet(drops') : f.id = d.id => f = d
          ELSE DistLess(player'.pos, d.pos, player'.radius + d.radius)
    /\ ChestsOpened(log')
          = Cardinality(Chests(drops)) + ChestKills(log') - Cardinality(Chests(drops'))
    /\ log'.exp = player.exp + PickedExp(log', player)

\* C21 (as stated): no tick moves a chest, a tick removes a chest only if the
\* player is closer to it than the sum of their radii, with one chest-pickup
\* event for each removal, and the removal adds nothing to exp or bloodEssence.
ChestAddsNothing ==
    [][Ticked =>
          /\ ChestEffect
          /\ log'.essence = player.bloodEssence + PickedEssence(log')]_vars

\* C21 (amended): as above, but the removal adds nothing to bloodEssence only
\* if the reward drawn by the chest-pickup handler is not the heal; the heal
\* sets bloodEssence to maxBloodEssence (and hp to maxHp) within the tick.
ChestRule ==
    [][Ticked =>
          /\ ChestEffect
          /\ IF log'.heals = 0
             THEN log'.essence = player.bloodEssence + PickedEssence(log')
             ELSE /\ log'.essence >= player.maxBloodEssence
                  /\ log'.essence <= player.maxBloodEssence + PickedEssence(log')]_vars

\* a tick has opened a chest while another chest lies inside the magnet
\* radius, where it has been since the start
ChestRuleWitness ==
    /\ log.simulated
    /\ ChestsOpened(log) = 1
    /\ \E d \in Chests(drops) :
          /\ d = ChestDrops[4]
          /\ DistLess(player.pos, d.pos,
                      Rnd(PLAYER_PICKUP_RANGE * PosScale * player.stats.magnet, ResScale))

(***************************************************************************)
(* SpecShots: a run in progress with the boss and an archer around the     *)
(* player.  The boss is about to release its shock wave, 100 units from    *)
(* the player (the wave overlaps the player at once) or 190 units away     *)
(* (the wave lingers out of reach unless the player walks into it); the    *)
(* archer is about to shoot.  The player has the dodge upgrade or not, and *)
(* stands still but for a few ticks after the wave, where it may walk      *)
(* towards the boss.                                                       *)
(***************************************************************************)
ShotCases ==
    {[ids |-> i, far |-> f] : i \in {<<>>, <<"leg_dodge">>}, f \in {100, 190}}

ShotEnemies(c) ==
    <<[EnemyAt(1, "BOSS", FALSE, VAdd(MidPos, Vec(-c.far * PosScale, 0)))
          EXCEPT !.stateTimer = 10],
      [EnemyAt(2, "ARCHER", FALSE, VAdd(MidPos, Vec(0, -300 * PosScale)))
          EXCEPT !.stateTimer = 10]>>

InitShots ==
    \E c \in ShotCases :
        Snapshot(Veteran(c.ids, Len(c.ids)), ShotEnemies(c), <<>>, <<>>, 5001, 1500, 3)

InputsShots ==
    {Input(m, {}, d, {}, {}, o) :
        m \in (IF hist.ticks \in 10..13 THEN {ZeroVec, Left} ELSE {ZeroVec}),
        d \in {{}, 1..(nextId + 8)},
        o \in Offers}

NextShots == updateGame(InputsShots)

SpecShots == InitShots /\ [][NextShots]_vars

(***************************************************************************)
(* Properties of the enemy projectiles                                     *)
(***************************************************************************)
\* the enemy projectiles the tick has processed
EnemyShots(l) == {q \in SeqSet(l.removed) \cup SeqSet(l.kept) : q.owner = "ENEMY"}

ShotRule ==
    Ticked =>
        /\ \A q \in EnemyShots(log') :
              checkCollision(q, player') <=>
                 Cardinality({k \in 1..Len(log'.shots) : log'.shots[k].pid = q.id}) = 1
        /\ NoRepeat([k \in 1..Len(log'.shots) |-> log'.shots[k].pid])
        /\ \A k \in 1..Len(log'.shots) :
              LET s == log'.shots[k]
              IN /\ \A q \in SeqSet(projectiles') : q.id # s.pid
                 /\ \E q \in SeqSet(log'.removed) : q.id = s.pid /\ q.damage = s.damage
                 /\ s.dodged => s.hpAfter = s.hpBefore
                 /\ ~s.dodged => s.hpAfter = s.hpBefore - s.damage
                 /\ player.stats.dodgeChance = 0 => ~s.dodged

\* C22: an enemy projectile that overlaps the player in a tick is removed in
\* that tick, dodged or not, so that no enemy projectile (the boss shock wave
\* of pierce 999 and duration 20 included) reduces the player's hp twice; a
\* dodged projectile leaves the hp as it is, one that is not dodged takes
\* exactly its damage, and with dodgeChance = 0 none is dodged.
ShotRuleHolds == [][ShotRule]_vars

\* the shock wave, released out of reach, has hit the player who walked into
\* it, and is gone
ShotRuleWitness ==
    /\ log.simulated
    /\ \E k \in 1..Len(log.shots) :
          /\ ~log.shots[k].dodged
          /\ \E q \in SeqSet(log.removed) :
                /\ q.id = log.shots[k].pid
                /\ q.visualType = "SHOCKWAVE"
                /\ q.pierce0 = 999
                /\ q.duration < 18
                /\ q.duration > 0

(***************************************************************************)
(* Properties of the critical hits                                         *)
(***************************************************************************)
\* C23: a critical hit of a player projectile takes twice the projectile's
\* damage from the enemy's hp, the amount the damage number shows; any other
\* hit takes exactly the projectile's damage.
CritDamage ==
    \A i \in 1..Len(log.hits) :
        \A q \in SeqSet(log.removed) \cup SeqSet(log.kept) :
            q.id = log.hits[i].pid =>
                /\ log.hits[i].applied
                      = (IF log.hits[i].crit THEN 2 * q.damage ELSE q.damage)
                /\ log.hits[i].crit => log.hits[i].applied = log.hits[i].shown

(***************************************************************************)
(* SpecCrowd: a run in progress shortly before frame 5400 with the enemy   *)
(* list at the cap or one below it.  The player has outrun the enemies and *)
(* keeps walking to the right; the crowd of peasants trails 600 units and  *)
(* more behind.                                                            *)
(***************************************************************************)
CrowdEnemies(n) ==
    [i \in 1..n |->
        EnemyAt(i, "PEASANT", FALSE,
                VAdd(MidPos, Vec(-(600 + 30 * (i % 20)) * PosScale,
                                 (30 * (i \div 20) - 225) * PosScale)))]

InitCrowd ==
    \E n \in {MAX_ENEMIES - 1, MAX_ENEMIES} :
        Snapshot([StartPlayer EXCEPT !.hp = 90 * ResScale], CrowdEnemies(n), <<>>, <<>>,
                 5380, 300, MAX_ENEMIES + 1)

NextCrowd == updateGame(Inputs)

SpecCrowd == InitCrowd /\ [][NextCrowd]_vars

Phase(k) ==
    IF k <= 39 THEN "PREPARING"
    ELSE IF k <= 69 THEN "CHARGING"
    ELSE IF k <= 129 THEN "COOLDOWN"
    ELSE "CHASING"

ChargerClock ==
    \A e \in SeqSet(enemies) :
        e.type = "CHARGER" /\ e.since >= 0 => e.since <= 130 /\ e.state = Phase(e.since)

\* enemy e is hit by no projectile in the tick that leads to the log l
Unhit(e, l) == \A i \in 1..Len(l.hits) : l.hits[i].eid # e.id

\* the length in tenths of the way from e to f, 12 units within the rounding
Moved12(e, f) == VecLen(VSub(f.pos, e.pos)) \in 119..121

\* the point a CHARGING charger heads for, the player being p
ChargePoint(e, p) ==
    Vec(TargetCoord(e.hasTarget, e.targetPos.x, p.pos.x),
        TargetCoord(e.hasTarget, e.targetPos.y, p.pos.y))

\* in a tick, the AI moves charger e, not hit by a projectile and seen as f
\* after the tick, on its updates t+41..t+70 only; unless strict, a charger
\* that starts the update on the point it heads for stays there
ChargerMoves(e, f, strict) ==
    /\ e.state \in {"PREPARING", "COOLDOWN"} => f.pos = e.pos
    /\ e.state = "CHARGING" =>
          /\ f.since \in 41..70
          /\ \/ Moved12(e, f)
             \/ ~strict /\ e.pos = ChargePoint(e, player') /\ f.pos = e.pos

ChargerSteps(strict) ==
    Ticked =>
        \A i \in 1..Len(enemies), j \in 1..Len(enemies') :
            (/\ enemies[i].id = enemies'[j].id
             /\ enemies[i].type = "CHARGER"
             /\ Unhit(enemies[i], log')) => ChargerMoves(enemies[i], enemies'[j], strict)

\* C25 (as stated): a charger that enters PREPARING at its AI update t and
\* stays alive is PREPARING after the updates t..t+39, CHARGING after t+40,
\* moves 12 units in each of the updates t+41..t+70, is in COOLDOWN after
\* t+70 and back in CHASING after t+130; its AI moves it in no PREPARING or
\* COOLDOWN update.
ChargerAlwaysMoves == []ChargerClock /\ [][ChargerSteps(TRUE)]_vars

\* C25 (amended): as above, but in an update of t+41..t+70 that the charger
\* starts exactly on the point it charges at it does not move (the
\* direction to that point is the zero vector).
ChargerTiming == []ChargerClock /\ [][ChargerSteps(FALSE)]_vars

\* a charger is back in CHASING after its update t+130, while another one,
\* which entered PREPARING later, has charged onto its target and stopped
ChargerTimingWitness ==
    /\ \E e \in SeqSet(enemies) : e.type = "CHARGER" /\ e.since = 130 /\ e.state = "CHASING"
    /\ \E e \in SeqSet(enemies) :
          e.type = "CHARGER" /\ e.since \in 41..129 /\ e.since < hist.ticks

(***************************************************************************)
(* SpecLock: a run in progress at the left edge of the world.  The player  *)
(* has walked to x = 100, looks to the left and can dash, which takes it   *)
(* to x = 0 (handleDash does not clamp); a charger chases it from below.   *)
(* The charger may lock its target in the first ticks, before or after     *)
(* the dash; the player walks away while the charger prepares.             *)
(***************************************************************************)
LockPos == Vec(100 * PosScale, MidPos.y)

LockPlayer ==
    [ChargerPlayer EXCEPT !.pos = LockPos, !.dashTimer = 0, !.rotation = PI]

LockEnemies ==
    <<EnemyAt(1, "CHARGER", FALSE, VAdd(LockPos, Vec(0, 200 * PosScale)))>>

InitLock == Snapshot(LockPlayer, LockEnemies, <<>>, <<>>, 5000, 1500, 2)

InputsLock ==
    {Input(m, t, {}, {}, {}, o) :
        m \in (IF hist.ticks \in 30..32 THEN {ZeroVec, Right} ELSE {ZeroVec}),
        t \in (IF hist.ticks < 4 THEN {{}, 1..nextId} ELSE {{}}),
        o \in Offers}

NextLock ==
    \/ updateGame(InputsLock)
    \/ hist.ticks < 3 /\ handleDash(Left)

SpecLock == InitLock /\ [][NextLock]_vars

\* in a tick, charger e, seen as f after the tick, charges at its locked
\* target, which it takes from the player when it enters PREPARING only
ChargesAtLock(e, f) ==
    /\ e.state = "CHARGING" /\ Unhit(e, log') =>
          f.pos = VAdd(e.pos, Step(normalizeVector(VSub(e.targetPos, e.pos)), 12 * ResScale))
    /\ IF e.state = "CHASING" /\ f.state = "PREPARING"
       THEN f.hasTarget /\ f.targetPos = player'.pos
       ELSE f.hasTarget = e.hasTarget /\ f.targetPos = e.targetPos

LockedCharge ==
    IF Ticked
    THEN \A i \in 1..Len(enemies), j \in 1..Len(enemies') :
            enemies[i].id = enemies'[j].id /\ enemies[i].type = "CHARGER"
               => ChargesAtLock(enemies[i], enemies'[j])
    ELSE enemies' = enemies

\* C26: while a charger is CHARGING, each AI update moves it toward the
\* player position taken when it entered PREPARING; the locked target is
\* set on the CHASING -> PREPARING transition only, no later player
\* movement or dash changes it, and the charge is never aimed at the
\* player's current position, whatever the locked coordinates are (0
\* included).
LockedChargeHolds == [][LockedCharge]_vars

(***************************************************************************)
(* SpecAlive: the runs of SpecGameOver with the pause menu.                *)
(***************************************************************************)
NextAlive ==
    \/ updateGame(InputsGameOver)
    \/ pause
    \/ resume
    \/ \E id \in OptionIds : selectUpgrade(id)
    \/ closeChestReward

SpecAlive == InitGameOver /\ [][NextAlive]_vars

\* C27: whenever a tick starts in game state PLAYING, player.hp > 0; no
\* level-up selection, chest reward or pause/resume switch lets the
\* simulation go on with a player whose hp is <= 0.
AliveWhilePlaying == (gameState \in {"PLAYING", "PAUSED"}) => player.hp > 0

\* the simulation goes on, after a level-up selection, with a player that
\* has lost hp since the chest of the same tick healed it
AliveWitness ==
    /\ gameState = "PLAYING"
    /\ hist.ticks > 1
    /\ hist.gameOvers = 0
    /\ upgrades # {}
    /\ player.hp < player.maxHp

(***************************************************************************)
(* SpecOrbs: a run in progress of a player of level 1 that has walked into *)
(* a heap of cultist orbs.                                                 *)
(*   short  the exp missing for the next level                             *)
(*   heap   the number of orbs of value 5 within reach                     *)
(* Three more orbs lie inside the magnet radius and one lies outside; two  *)
(* peasants approach.                                                      *)
(***************************************************************************)
OrbCases == {[short |-> sh, heap |-> n] : sh \in {1, 5, 20}, n \in {1, 4, 10}}

OrbsPlayer(c) ==
    [StartPlayer EXCEPT !.exp = StartPlayer.nextLevelExp - c.short * ResScale,
                        !.hp = 80 * ResScale]

OrbsDrops(c) ==
    [i \in 1..c.heap |-> OrbAt(i, VAdd(MidPos, Vec(2 * i * PosScale, 10 * PosScale)), 5)]
    \o <<OrbAt(11, VAdd(MidPos, Vec(60 * PosScale, 0)), 5),
         OrbAt(12, VAdd(MidPos, Vec(0, -90 * PosScale)), 1),
         OrbAt(13, VAdd(MidPos, Vec(-70 * PosScale, 70 * PosScale)), 5),
         OrbAt(14, VAdd(MidPos, Vec(400 * PosScale, 0)), 1)>>

OrbsEnemies ==
    <<EnemyAt(15, "PEASANT", FALSE, VAdd(MidPos, Vec(-300 * PosScale, 0))),
      EnemyAt(16, "PEASANT", FALSE, VAdd(MidPos, Vec(0, 350 * PosScale)))>>

InitOrbs ==
    \E c \in OrbCases :
        Snapshot(OrbsPlayer(c), OrbsEnemies, <<>>, OrbsDrops(c), 2401, 300, 17)

InputsOrbs ==
    {Input(m, {}, {}, {}, {}, o) :
        m \in (IF hist.ticks \in 20..23 THEN {ZeroVec, Right} ELSE {ZeroVec}),
        o \in Offers}

NextOrbs ==
    \/ updateGame(InputsOrbs)
    \/ \E id \in OptionIds : selectUpgrade(id)

SpecOrbs == InitOrbs /\ [][NextOrbs]_vars

\* C28 (as stated): at the end of every tick player.exp < player.nextLevelExp,
\* however many orbs the tick picks up.
ExpBelowNext == player.exp < player.nextLevelExp

\* a tick gains a level exactly if the exp at its level-up check reaches
\* nextLevelExp, and never more than one; it ends with exp < nextLevelExp
\* unless the exp it carries over from the level gained reaches the new
\* nextLevelExp
OneLevel ==
    Ticked =>
        /\ player'.level = (IF log'.exp >= player.nextLevelExp
                            THEN player.level + 1 ELSE player.level)
        /\ \/ player'.exp < player'.nextLevelExp
           \/ /\ player'.level = player.level + 1
              /\ log'.exp - player.nextLevelExp >= player'.nextLevelExp
              /\ player'.exp = log'.exp - player.nextLevelExp

\* C28 (amended): at most one level is gained per tick; at the end of a
\* tick player.exp < player.nextLevelExp unless the tick gained a level and
\* the exp carried over (the exp at the level-up check minus the old
\* nextLevelExp) reaches the new nextLevelExp.
OneLevelPerTick == [][OneLevel]_vars

\* a tick has picked up several orbs and gained one level, and the exp it
\* carries over is enough for the next level
OneLevelWitness ==
    /\ gameState = "LEVEL_UP"
    /\ Len(log.picked) >= 2
    /\ player.level = 2
    /\ player.exp >= player.nextLevelExp

(***************************************************************************)
(* Properties of the MENU reset                                            *)
(***************************************************************************)
\* C29: every session starts from the same simulation state: in MENU the
\* player is the fixed starting record, enemies, projectiles and drops are
\* empty, and score, hit-stop counter and frame counter are 0, as they are
\* when the program starts.
MenuIsFresh ==
    gameState = "MENU" =>
        /\ player = StartPlayer
        /\ enemies = <<>> /\ projectiles = <<>> /\ drops = <<>>
        /\ score = 0
        /\ hitStop = 0
        /\ frameCount = 0

(***************************************************************************)
(* SpecMagnet: a run in progress of a player that stands still among orbs  *)
(* of value 1, most of them inside the magnet radius (160 units, 240 with  *)
(* the magnet upgrade), one on its border and one outside.  The enemies    *)
(* that spawn stay out of reach.                                           *)
(***************************************************************************)
MagnetCases == {<<>>, <<"com_magnet">>}

MagnetDrops ==
    <<OrbAt(1, VAdd(MidPos, Vec(5 * PosScale, 0)), 1),
      OrbAt(2, VAdd(MidPos, Vec(-31 * PosScale, 0)), 1),
      OrbAt(3, VAdd(MidPos, Vec(60 * PosScale, -80 * PosScale)), 1),
      OrbAt(4, VAdd(MidPos, Vec(0, 159 * PosScale)), 1),
      OrbAt(5, VAdd(MidPos, Vec(-160 * PosScale, 0)), 1),
      OrbAt(6, VAdd(MidPos, Vec(170 * PosScale, 170 * PosScale)), 1),
      OrbAt(7, VAdd(MidPos, Vec(-300 * PosScale, 10 * PosScale)), 1)>>

OrbIds == {MagnetDrops[i].id : i \in 1..Len(MagnetDrops)}

InitMagnet ==
    \E ids \in MagnetCases :
        Snapshot([Veteran(ids, Len(ids)) EXCEPT !.hp = 70 * ResScale],
                 <<>>, <<>>, MagnetDrops, 2401, 300, 8)

InputsMagnet == {Input(ZeroVec, {}, {}, {}, {}, o) : o \in Offers}

NextMagnet == updateGame(InputsMagnet)

SpecMagnet == InitMagnet /\ [][NextMagnet]_vars

\* updateGame changes the state if it passes its first guard and the model
\* has ticks left: this is ENABLED <<NextMagnet>>_vars
TickEnabled == Running(gameState) /\ (HitStopActive(hitStop) \/ hist.ticks < MaxTicks)

\* the animation-frame loop calls updateGame again after every frame: weak
\* fairness of NextMagnet, with its enabling condition written out
SpecMagnetLive == SpecMagnet /\ ([]<>(~TickEnabled) \/ []<><<NextMagnet>>_vars)

MagnetRange(pl) == Rnd(PLAYER_PICKUP_RANGE * PosScale * pl.stats.magnet, ResScale)

InMagnet(d) == d.type = "BLOOD" /\ DistLess(player.pos, d.pos, MagnetRange(player))

\* a tick of a player that stands still leaves an orb outside the magnet
\* radius where it is, picks up an orb in contact and moves any other orb
\* inside the radius 12 units closer to the player
MagnetStep ==
    Ticked /\ player'.pos = player.pos =>
        /\ \A d \in SeqSet(drops) :
              d.type = "BLOOD" =>
                 IF ~InMagnet(d)
                 THEN d \in SeqSet(drops')
                 ELSE IF DistLess(player.pos, d.pos, player.radius + d.radius)
                 THEN /\ \A f \in SeqSet(drops') : f.id # d.id
                      /\ \E i \in 1..Len(log'.picked) : log'.picked[i].id = d.id
                 ELSE \E f \in SeqSet(drops') :
                         /\ f.id = d.id
                         /\ Moved12(d, f)
                         /\ getDistance(player.pos, d.pos) - getDistance(player.pos, f.pos)
                               \in 119..121
        /\ log'.exp = player.exp + PickedExp(log', player)
        /\ log'.essence = player.bloodEssence + PickedEssence(log')

\* the number of ticks after which an orb that started inside the magnet
\* radius of player pl is picked up
MagnetTicks(pl) == (MagnetRange(pl) - (pl.radius + 5 * PosScale)) \div (12 * PosScale) + 2

MagnetBound ==
    \A d \in SeqSet(drops) : InMagnet(d) => hist.ticks < MagnetTicks(player)

MagnetLive ==
    \A id \in OrbIds :
        (\E d \in SeqSet(drops) : d.id = id /\ InMagnet(d))
           ~> (gameState # "PLAYING" \/ \A d \in SeqSet(drops) : d.id # id)

\* C30: while the player stands still and the game stays in PLAYING, an orb
\* inside the magnet radius moves 12 units straight toward the player on
\* every simulated tick and is picked up (removed, its value added to exp
\* and bloodEssence) within a bounded number of ticks, never passing the
\* player; an orb outside the magnet radius is never moved.
MagnetRule == []MagnetBound /\ [][MagnetStep]_vars /\ MagnetLive

\* the orb that started 159 units away has just been picked up, while the
\* orbs on and outside the border of the magnet radius lie where they lay
MagnetRuleWitness ==
    /\ gameState = "PLAYING"
    /\ \E i \in 1..Len(log.picked) : log.picked[i].id = 4
    /\ player.exp > 0
    /\ \E d \in SeqSet(drops) : d.id = 7 /\ d = MagnetDrops[7]
    /\ \A d \in SeqSet(drops) : ~InMagnet(d)

=============================================================================
